---- MODULE Spec2Model ----
(***************************************************************************)
(* App Market escrow program (programs/app-market/src/lib.rs) as a state   *)
(* machine.  One Config singleton and the accounts derived from one        *)
(* Listing PDA are followed: its Escrow, its PendingWithdrawal tickets,    *)
(* its Offers with their OfferEscrows, its Transaction and the Dispute of  *)
(* that Transaction.  Every instruction is one atomic action: the runtime  *)
(* discards all account writes of an instruction that returns Err, so a    *)
(* failing call is a stuttering step.  For each instruction I the operator *)
(* IResult(inputs) walks the account constraints and the require! checks   *)
(* in source order and yields "Ok" or the first error; action I is         *)
(* enabled exactly when IResult = "Ok".                                    *)
(*                                                                         *)
(* Quantities.  u64 amounts are modelled in an unsigned word whose largest *)
(* value is U64_MAX; checked_add / checked_mul / checked_sub fail beyond   *)
(* it as in the source.  Lamport-denominated constants are expressed in    *)
(* model quanta (one model quantum stands for 50 000 000 lamports), and    *)
(* the spam-bound counters are scaled so that the limits are reached.      *)
(* Basis-point constants and all durations keep their source values.       *)
(***************************************************************************)
EXTENDS Integers, Sequences, FiniteSets, TLC

\* ------------------------------------------------------------------------
\* Program constants (lib.rs 25-83)
\* ------------------------------------------------------------------------
BASIS_POINTS_DIVISOR == 10000
APP_FEE_BPS == 300
MAX_PLATFORM_FEE_BPS == 1000
MAX_DISPUTE_FEE_BPS == 500
TRANSFER_DEADLINE_SECONDS == 604800
MAX_AUCTION_DURATION_SECONDS == 2592000
MIN_BID_INCREMENT_BPS == 500
\* 0.1 SOL = 100_000_000 lamports = 2 model quanta
MIN_BID_INCREMENT_LAMPORTS == 2
ANTI_SNIPE_WINDOW == 900
ANTI_SNIPE_EXTENSION == 900
ADMIN_TIMELOCK_SECONDS == 172800
FINALIZE_GRACE_PERIOD == 604800
\* source value 1000, scaled
MAX_BIDS_PER_LISTING == 4
\* source value 100, scaled
MAX_OFFERS_PER_LISTING == 4
\* source value 10, scaled
MAX_CONSECUTIVE_OFFERS == 3
\* source value 10, scaled
MAX_CONSECUTIVE_BIDS == 3
\* 10_000 lamports, rounded up to one model quantum
TX_FEE_BUFFER_LAMPORTS == 1
BACKEND_TIMEOUT_SECONDS == 2592000
DISPUTE_RESOLUTION_TIMELOCK_SECONDS == 172800
\* expires_at of a PendingWithdrawal: 7 * 24 * 60 * 60 (lib.rs 617)
WITHDRAWAL_EXPIRY_SECONDS == 604800
\* PendingWithdrawal::INIT_SPACE: 32 + 32 + 8 + 8 + 8 + 8 + 1 (lib.rs 3250-3260)
PENDING_WITHDRAWAL_INIT_SPACE == 97
\* the 8-byte account discriminator in "8 + T::INIT_SPACE"
DISCRIMINATOR_SIZE == 8

\* ------------------------------------------------------------------------
\* Bounds of the model
\* ------------------------------------------------------------------------
\* largest value of the unsigned word that stands for u64
U64_MAX == 65535
\* Rent::minimum_balance of any program account, in model quanta
RentExempt == 1
\* what each buyer's wallet holds at the start
BuyerFunds == 200
\* what every other wallet holds at the start
OtherFunds == 12
\* the clock never passes this many seconds
MaxNow == 5184000
\* how far the bidding specifications follow the clock
BiddingHorizon == 1800
TimerHorizon == 2400
\* the fee schedule initialize is called with (basis points)
PlatformFee == 500
DisputeFee == 200
\* largest offer_seed a caller passes
MaxOfferSeed == 1

\* ------------------------------------------------------------------------
\* Keys
\* ------------------------------------------------------------------------
NoKey == "none"
EXPECTED_ADMIN == "admin"
ADMIN2 == "admin2"
SELLER == "seller"
BUYER1 == "b1"
BUYER2 == "b2"
BACKEND == "backend"
TREASURY == "treasury"
TREASURY2 == "treasury2"
APP_TOKEN_MINT == "app_mint"
OTHER_MINT == "other_mint"

Buyers == {BUYER1, BUYER2}
Signers == {SELLER, BUYER1, BUYER2, EXPECTED_ADMIN, ADMIN2, BACKEND}
Wallets == Signers \cup {TREASURY, TREASURY2}
TreasuryKeys == {TREASURY, TREASURY2}

\* Option<u64> / Option<i64> None
NoInt == 0 - 1

\* withdrawal_id values: place_bid and buy_now stop at MAX_BIDS_PER_LISTING,
\* accept_offer can mint one more
WithdrawalIds == 1..(MAX_BIDS_PER_LISTING + 1)

\* Offer PDAs of the listing: one per (buyer, offer_seed)
OfferSeeds == 0..MaxOfferSeed

OfferKeys == Buyers \X OfferSeeds

VARIABLES now, config, listing, escrow, pw, offers, tx, dispute, wallet, last

vars == <<now, config, listing, escrow, pw, offers, tx, dispute, wallet, last>>

\* ------------------------------------------------------------------------
\* Ledger primitives
\* ------------------------------------------------------------------------
\* u64::checked_add / checked_mul / checked_sub: None (here NoInt) on overflow
CheckedAdd(a, b) == IF a + b > U64_MAX THEN NoInt ELSE a + b

CheckedMul(a, b) == IF a * b > U64_MAX THEN NoInt ELSE a * b

CheckedSub(a, b) == IF b > a THEN NoInt ELSE a - b

SaturatingAdd(a, b) == IF a + b > U64_MAX THEN U64_MAX ELSE a + b

SaturatingSub(a, b) == IF b > a THEN 0 ELSE a - b

Max(a, b) == IF a >= b THEN a ELSE b

\* x.checked_mul(bps)?.checked_div(BASIS_POINTS_DIVISOR)?  (NoInt: MathOverflow)
BpsOf(x, bps) ==
    IF CheckedMul(x, bps) = NoInt THEN NoInt
    ELSE CheckedMul(x, bps) \div BASIS_POINTS_DIVISOR

\* borsh try_from_slice: Err unless the slice is consumed entirely
BorshTryFromSliceOk(sliceLen, structLen) == sliceLen = structLen

\* system_program::transfer / close: move lamports between wallets
Credit(w, to, amt) == [w EXCEPT ![to] = @ + amt]

Debit(w, from, amt) == [w EXCEPT ![from] = @ - amt]

\* variant: the deposit overwrites escrow.amount
EscrowDepositOverwriting(e, amt) ==
    [e EXCEPT !.amount = amt, !.lamports = @ + amt]

\* an inbound transfer into the listing Escrow with its bookkeeping
\* (escrow.amount = escrow.amount.checked_add(amt) next to the transfer)
EscrowDeposit(e, amt) ==
    [e EXCEPT !.amount = CheckedAdd(@, amt), !.lamports = @ + amt]

\* variant: the payout leaves escrow.amount as it was
EscrowPayoutUntracked(e, amt) ==
    [e EXCEPT !.lamports = @ - amt]

\* an outbound transfer from the listing Escrow with its bookkeeping
\* (escrow.amount = escrow.amount.checked_sub(amt) next to the transfer)
EscrowPayout(e, amt) ==
    [e EXCEPT !.amount = CheckedSub(@, amt), !.lamports = @ - amt]

\* ------------------------------------------------------------------------
\* Account records
\* ------------------------------------------------------------------------
NoListing ==
    [exists |-> FALSE, seller |-> NoKey, listing_type |-> "Auction",
     starting_price |-> 0, reserve_price |-> NoInt, buy_now_price |-> NoInt,
     current_bid |-> 0, current_bidder |-> NoKey, created_at |-> 0,
     auction_started |-> FALSE, auction_start_time |-> NoInt, end_time |-> 0,
     status |-> "Active", platform_fee_bps |-> 0, dispute_fee_bps |-> 0,
     withdrawal_count |-> 0, offer_count |-> 0, last_offer_buyer |-> NoKey,
     consecutive_offer_count |-> 0, last_bidder |-> NoKey,
     consecutive_bid_count |-> 0, payment_mint |-> NoKey]

\* amount is kept after the account is closed (exists = FALSE) as the value
\* the account held when it was closed; lamports is the custody balance
NoEscrow == [exists |-> FALSE, amount |-> 0, lamports |-> 0]

\* state: "none" (never created), "pending" (account exists), "claimed" (closed)
NoWithdrawal ==
    [state |-> "none", user |-> NoKey, amount |-> 0, created_at |-> 0,
     expires_at |-> 0, withdrawal_id |-> 0, claims |-> 0, paid |-> 0,
     paid_to |-> NoKey]

\* the Offer PDA ("offer", listing, buyer, offer_seed) with its OfferEscrow PDA;
\* payouts counts the times the offered funds left the OfferEscrow
NoOffer ==
    [exists |-> FALSE, buyer |-> NoKey, amount |-> 0, deadline |-> 0, status |-> "Active",
     created_at |-> 0, escrow_exists |-> FALSE, escrow_amount |-> 0,
     escrow_lamports |-> 0, payouts |-> 0]

NoTransaction ==
    [exists |-> FALSE, created |-> 0, seller |-> NoKey, buyer |-> NoKey, sale_price |-> 0,
     platform_fee |-> 0, seller_proceeds |-> 0, status |-> "InEscrow",
     transfer_deadline |-> 0, created_at |-> 0,
     seller_confirmed_transfer |-> FALSE, seller_confirmed_at |-> NoInt,
     completed_at |-> NoInt, uploads_verified |-> FALSE,
     verification_timestamp |-> NoInt, verification_hash |-> "", via |-> "none"]

NoDispute ==
    [exists |-> FALSE, created |-> 0, initiator |-> NoKey, respondent |-> NoKey,
     status |-> "Open", resolution |-> "none", dispute_fee |-> 0,
     created_at |-> 0, resolved_at |-> NoInt, pending_resolution |-> "none",
     pending_buyer_amount |-> NoInt, pending_seller_amount |-> NoInt,
     pending_resolution_at |-> NoInt, contested |-> FALSE, lamports |-> 0]

\* the last instruction that succeeded, with what it read before it wrote
NoLast ==
    [op |-> "initialize", caller |-> EXPECTED_ADMIN, at |-> 0, amount |-> 0,
     id |-> 0, old_bid |-> 0, old_bidder |-> NoKey, old_end_time |-> 0,
     old_started |-> FALSE, old_escrow_amount |-> 0, old_escrow_lamports |-> 0,
     old_pending_at |-> NoInt, transfers |-> <<>>]

Did(op, caller, amount, transfers) ==
    [op |-> op, caller |-> caller, at |-> now, amount |-> amount,
     id |-> 0, old_bid |-> listing.current_bid, old_bidder |-> listing.current_bidder,
     old_end_time |-> listing.end_time, old_started |-> listing.auction_started,
     old_escrow_amount |-> escrow.amount, old_escrow_lamports |-> escrow.lamports,
     old_pending_at |-> NoInt, transfers |-> transfers]

Transfer(from, to, amt) == [from |-> from, to |-> to, amount |-> amt]

\* ------------------------------------------------------------------------
\* initialize (lib.rs 90-137)
\* ------------------------------------------------------------------------
InitializeResult(admin, platform_fee_bps, dispute_fee_bps) ==
    IF admin # EXPECTED_ADMIN THEN "NotExpectedAdmin"
    ELSE IF platform_fee_bps > MAX_PLATFORM_FEE_BPS THEN "FeeTooHigh"
    ELSE IF dispute_fee_bps > MAX_DISPUTE_FEE_BPS THEN "FeeTooHigh"
    ELSE "Ok"

Initialize(admin, treasury, platform_fee_bps, dispute_fee_bps, backend_authority) ==
    [admin |-> admin, treasury |-> treasury, backend_authority |-> backend_authority,
     platform_fee_bps |-> platform_fee_bps, dispute_fee_bps |-> dispute_fee_bps,
     total_volume |-> 0, total_sales |-> 0, paused |-> FALSE,
     pending_treasury |-> NoKey, pending_treasury_at |-> NoInt,
     pending_admin |-> NoKey, pending_admin_at |-> NoInt]

\* the state after initialize(platform_fee_bps, dispute_fee_bps, backend) by the
\* expected admin, for any platform fee of the set
InitWith(platformFees) ==
    /\ now = 0
    /\ \E pf \in platformFees :
          /\ InitializeResult(EXPECTED_ADMIN, pf, DisputeFee) = "Ok"
          /\ config = Initialize(EXPECTED_ADMIN, TREASURY, pf, DisputeFee, BACKEND)
    /\ listing = NoListing
    /\ escrow = NoEscrow
    /\ pw = [i \in WithdrawalIds |-> NoWithdrawal]
    /\ offers = [k \in OfferKeys |-> NoOffer]
    /\ tx = NoTransaction
    /\ dispute = NoDispute
    /\ wallet = [w \in Wallets |-> IF w \in Buyers THEN BuyerFunds ELSE OtherFunds]
    /\ last = NoLast

Init == InitWith({PlatformFee})

\* ------------------------------------------------------------------------
\* The clock (Clock::get()?.unix_timestamp)
\* ------------------------------------------------------------------------
\* last forgets the instruction once the clock has moved on
Tick(d, until) ==
    /\ now + d <= until
    /\ now' = now + d
    /\ last' = [NoLast EXCEPT !.op = "tick"]
    /\ UNCHANGED <<config, listing, escrow, pw, offers, tx, dispute, wallet>>

\* ------------------------------------------------------------------------
\* create_listing (lib.rs 269-408, accounts 2453-2482)
\* ------------------------------------------------------------------------
CreateListingResult(seller, listing_type, starting_price, reserve_price, buy_now_price, duration_seconds) ==
    IF listing.exists THEN "AccountAlreadyInUse"
    ELSE IF wallet[seller] < RentExempt + RentExempt THEN "InsufficientFundsForRent"
    ELSE IF config.paused THEN "ContractPaused"
    ELSE IF ~(starting_price > 0) THEN "InvalidPrice"
    ELSE IF ~(duration_seconds > 0 /\ duration_seconds <= MAX_AUCTION_DURATION_SECONDS)
         THEN "InvalidDuration"
    ELSE IF listing_type = "Auction" /\ reserve_price # NoInt
            /\ starting_price # reserve_price
         THEN "StartingPriceMustEqualReserve"
    ELSE IF listing_type = "BuyNow" /\ buy_now_price = NoInt THEN "BuyNowPriceRequired"
    ELSE "Ok"

\* variant: the Config rate whatever the payment mint
CapturedPlatformFeeFromConfig(payment_mint) == config.platform_fee_bps

\* lines 362-372: the platform fee rate locked into the listing
CapturedPlatformFee(payment_mint) ==
    IF payment_mint = APP_TOKEN_MINT THEN APP_FEE_BPS ELSE config.platform_fee_bps

CreateListing(seller, listing_type, starting_price, reserve_price, buy_now_price, duration_seconds, payment_mint) ==
    /\ CreateListingResult(seller, listing_type, starting_price, reserve_price,
                           buy_now_price, duration_seconds) = "Ok"
    /\ listing' =
          [exists |-> TRUE, seller |-> seller, listing_type |-> listing_type,
           starting_price |-> starting_price, reserve_price |-> reserve_price,
           buy_now_price |-> buy_now_price, current_bid |-> 0,
           current_bidder |-> NoKey, created_at |-> now,
           auction_started |-> FALSE, auction_start_time |-> NoInt,
           end_time |-> now + duration_seconds, status |-> "Active",
           platform_fee_bps |-> CapturedPlatformFee(payment_mint),
           dispute_fee_bps |-> config.dispute_fee_bps,
           withdrawal_count |-> 0, offer_count |-> 0, last_offer_buyer |-> NoKey,
           consecutive_offer_count |-> 0, last_bidder |-> NoKey,
           consecutive_bid_count |-> 0, payment_mint |-> payment_mint]
    /\ escrow' = [exists |-> TRUE, amount |-> 0, lamports |-> RentExempt]
    /\ wallet' = Debit(wallet, seller, RentExempt + RentExempt)
    /\ last' = Did("create_listing", seller, 0, <<>>)
    /\ UNCHANGED <<now, config, pw, offers, tx, dispute>>

\* ------------------------------------------------------------------------
\* place_bid (lib.rs 410-641, accounts 2484-2510)
\* ------------------------------------------------------------------------
\* lines 438-450: what the bidder's wallet must hold
PlaceBidRequiredBalance(amount) ==
    IF listing.current_bidder # NoKey /\ listing.current_bid > 0
    THEN IF CheckedAdd(amount, RentExempt) = NoInt THEN NoInt
         ELSE CheckedAdd(CheckedAdd(amount, RentExempt), TX_FEE_BUFFER_LAMPORTS)
    ELSE CheckedAdd(amount, TX_FEE_BUFFER_LAMPORTS)

\* variant: the increment computed in wrapping u64 arithmetic
MinBidWrapping(current_bid) ==
    (current_bid
       + Max(((current_bid * MIN_BID_INCREMENT_BPS) % (U64_MAX + 1))
                \div BASIS_POINTS_DIVISOR,
             MIN_BID_INCREMENT_LAMPORTS)) % (U64_MAX + 1)

\* variant: a bid equal to the standing bid is enough
MinBidSameAmount(current_bid) == current_bid

\* lines 485-494: the least acceptable bid over a standing bid (NoInt: MathOverflow)
MinBid(current_bid) ==
    IF BpsOf(current_bid, MIN_BID_INCREMENT_BPS) = NoInt THEN NoInt
    ELSE CheckedAdd(current_bid,
                    Max(BpsOf(current_bid, MIN_BID_INCREMENT_BPS),
                        MIN_BID_INCREMENT_LAMPORTS))

\* lines 528-532
ReserveMet(amount) ==
    IF listing.reserve_price # NoInt THEN amount >= listing.reserve_price ELSE TRUE

\* variant: the first qualifying bid leaves end_time where create_listing put it
EndTimeAfterStartUnshifted(amount) == listing.end_time

\* lines 526-541: end_time after the reserve-gated timer start
EndTimeAfterStart(amount) ==
    IF ~listing.auction_started /\ ReserveMet(amount)
    THEN now + (listing.end_time - listing.created_at)
    ELSE listing.end_time

StartedAfterBid(amount) ==
    listing.auction_started \/ (~listing.auction_started /\ ReserveMet(amount))

\* variant: no anti-snipe extension
EndTimeAfterBidNoExtension(amount) == EndTimeAfterStart(amount)

\* lines 548-553: anti-snipe extension
EndTimeAfterBid(amount) ==
    IF StartedAfterBid(amount) /\ now > EndTimeAfterStart(amount) - ANTI_SNIPE_WINDOW
    THEN now + ANTI_SNIPE_EXTENSION
    ELSE EndTimeAfterStart(amount)

\* lines 566-567: a ticket is minted for the displaced bidder
BidDisplaces == listing.current_bidder # NoKey /\ listing.current_bid > 0

\* variant: place_bid without the comparison of the ticket account with the
\* derived address of lines 585-588
PlaceBidResultAnyTicketAccount(bidder, amount, pwAccount) ==
    IF ~listing.exists \/ ~escrow.exists THEN "AccountNotInitialized"
    ELSE IF config.paused THEN "ContractPaused"
    ELSE IF listing.status # "Active" THEN "ListingNotActive"
    ELSE IF listing.listing_type # "Auction" THEN "NotAnAuction"
    ELSE IF listing.auction_started /\ ~(now < listing.end_time) THEN "AuctionEnded"
    ELSE IF bidder = listing.seller THEN "SellerCannotBid"
    ELSE IF PlaceBidRequiredBalance(amount) = NoInt THEN "MathOverflow"
    ELSE IF ~(wallet[bidder] >= PlaceBidRequiredBalance(amount)) THEN "InsufficientBalance"
    ELSE IF ~(listing.withdrawal_count < MAX_BIDS_PER_LISTING) THEN "MaxBidsExceeded"
    ELSE IF listing.last_bidder = bidder
            /\ ~(listing.consecutive_bid_count < MAX_CONSECUTIVE_BIDS)
         THEN "MaxConsecutiveBidsExceeded"
    ELSE IF ~listing.auction_started /\ listing.reserve_price # NoInt
            /\ ~(amount >= listing.reserve_price)
         THEN "BidBelowReserve"
    ELSE IF listing.current_bid > 0 /\ MinBid(listing.current_bid) = NoInt
         THEN "MathOverflow"
    ELSE IF listing.current_bid > 0 /\ ~(amount >= MinBid(listing.current_bid))
         THEN "BidIncrementTooSmall"
    ELSE IF ~(listing.current_bid > 0) /\ ~(amount >= listing.starting_price)
         THEN "BidTooLow"
    ELSE IF CheckedAdd(escrow.amount, amount) = NoInt THEN "MathOverflow"
    ELSE IF BidDisplaces /\ pwAccount \notin WithdrawalIds
         THEN "InvalidPreviousBidder"
    ELSE "Ok"

\* variant: the consecutive-bid requirement of lines 468-471 with <= for <
PlaceBidResultOneMore(bidder, amount, pwAccount) ==
    IF ~listing.exists \/ ~escrow.exists THEN "AccountNotInitialized"
    ELSE IF config.paused THEN "ContractPaused"
    ELSE IF listing.status # "Active" THEN "ListingNotActive"
    ELSE IF listing.listing_type # "Auction" THEN "NotAnAuction"
    ELSE IF listing.auction_started /\ ~(now < listing.end_time) THEN "AuctionEnded"
    ELSE IF bidder = listing.seller THEN "SellerCannotBid"
    ELSE IF PlaceBidRequiredBalance(amount) = NoInt THEN "MathOverflow"
    ELSE IF ~(wallet[bidder] >= PlaceBidRequiredBalance(amount)) THEN "InsufficientBalance"
    ELSE IF ~(listing.withdrawal_count < MAX_BIDS_PER_LISTING) THEN "MaxBidsExceeded"
    ELSE IF listing.last_bidder = bidder
            /\ ~(listing.consecutive_bid_count <= MAX_CONSECUTIVE_BIDS)
         THEN "MaxConsecutiveBidsExceeded"
    ELSE IF ~listing.auction_started /\ listing.reserve_price # NoInt
            /\ ~(amount >= listing.reserve_price)
         THEN "BidBelowReserve"
    ELSE IF listing.current_bid > 0 /\ MinBid(listing.current_bid) = NoInt
         THEN "MathOverflow"
    ELSE IF listing.current_bid > 0 /\ ~(amount >= MinBid(listing.current_bid))
         THEN "BidIncrementTooSmall"
    ELSE IF ~(listing.current_bid > 0) /\ ~(amount >= listing.starting_price)
         THEN "BidTooLow"
    ELSE IF CheckedAdd(escrow.amount, amount) = NoInt THEN "MathOverflow"
    ELSE IF BidDisplaces /\ pwAccount # listing.withdrawal_count + 1
         THEN "InvalidPreviousBidder"
    ELSE "Ok"

PlaceBidResult(bidder, amount, pwAccount) ==
    IF ~listing.exists \/ ~escrow.exists THEN "AccountNotInitialized"
    ELSE IF config.paused THEN "ContractPaused"
    ELSE IF listing.status # "Active" THEN "ListingNotActive"
    ELSE IF listing.listing_type # "Auction" THEN "NotAnAuction"
    ELSE IF listing.auction_started /\ ~(now < listing.end_time) THEN "AuctionEnded"
    ELSE IF bidder = listing.seller THEN "SellerCannotBid"
    ELSE IF PlaceBidRequiredBalance(amount) = NoInt THEN "MathOverflow"
    ELSE IF ~(wallet[bidder] >= PlaceBidRequiredBalance(amount)) THEN "InsufficientBalance"
    ELSE IF ~(listing.withdrawal_count < MAX_BIDS_PER_LISTING) THEN "MaxBidsExceeded"
    ELSE IF listing.last_bidder = bidder
            /\ ~(listing.consecutive_bid_count < MAX_CONSECUTIVE_BIDS)
         THEN "MaxConsecutiveBidsExceeded"
    ELSE IF ~listing.auction_started /\ listing.reserve_price # NoInt
            /\ ~(amount >= listing.reserve_price)
         THEN "BidBelowReserve"
    ELSE IF listing.current_bid > 0 /\ MinBid(listing.current_bid) = NoInt
         THEN "MathOverflow"
    ELSE IF listing.current_bid > 0 /\ ~(amount >= MinBid(listing.current_bid))
         THEN "BidIncrementTooSmall"
    ELSE IF ~(listing.current_bid > 0) /\ ~(amount >= listing.starting_price)
         THEN "BidTooLow"
    ELSE IF CheckedAdd(escrow.amount, amount) = NoInt THEN "MathOverflow"
    ELSE IF BidDisplaces /\ pwAccount # listing.withdrawal_count + 1
         THEN "InvalidPreviousBidder"
    ELSE "Ok"

\* lines 500-552 and 568-571: the handler's copy of the Listing when it
\* returns
PlaceBidListing(bidder, amount) ==
    [listing EXCEPT
       !.current_bid = amount,
       !.current_bidder = bidder,
       !.last_bidder = bidder,
       !.consecutive_bid_count =
           IF listing.last_bidder = bidder THEN @ + 1 ELSE 1,
       !.auction_started = StartedAfterBid(amount),
       !.auction_start_time =
           IF ~listing.auction_started /\ ReserveMet(amount) THEN now ELSE @,
       !.end_time = EndTimeAfterBid(amount),
       !.withdrawal_count = IF BidDisplaces THEN @ + 1 ELSE @]

PlaceBid(bidder, amount, pwAccount) ==
    /\ PlaceBidResult(bidder, amount, pwAccount) = "Ok"
    /\ listing' = PlaceBidListing(bidder, amount)
    /\ escrow' = EscrowDeposit(escrow, amount)
    /\ pw' = IF BidDisplaces
             THEN [pw EXCEPT ![pwAccount] =
                      [state |-> "pending", user |-> listing.current_bidder,
                       amount |-> listing.current_bid, created_at |-> now,
                       expires_at |-> now + WITHDRAWAL_EXPIRY_SECONDS,
                       withdrawal_id |-> listing.withdrawal_count + 1,
                       claims |-> 0, paid |-> 0, paid_to |-> NoKey]]
             ELSE pw
    /\ wallet' = Debit(wallet, bidder,
                       amount + (IF BidDisplaces THEN RentExempt ELSE 0))
    /\ last' = Did("place_bid", bidder, amount, <<Transfer(bidder, "escrow", amount)>>)
    /\ UNCHANGED <<now, config, offers, tx, dispute>>

\* ------------------------------------------------------------------------
\* withdraw_funds (lib.rs 643-695, accounts 2512-2542)
\* ------------------------------------------------------------------------
WithdrawFundsResult(user, id) ==
    IF ~listing.exists \/ ~escrow.exists THEN "AccountNotInitialized"
    ELSE IF id \notin WithdrawalIds THEN "AccountNotInitialized"
    ELSE IF pw[id].state # "pending" THEN "AccountNotInitialized"
    ELSE IF pw[id].user # user THEN "NotWithdrawalOwner"
    ELSE IF ~(escrow.lamports >= pw[id].amount + RentExempt)
         THEN "InsufficientEscrowBalance"
    ELSE IF CheckedSub(escrow.amount, pw[id].amount) = NoInt THEN "MathOverflow"
    ELSE "Ok"

WithdrawFunds(user, id) ==
    /\ WithdrawFundsResult(user, id) = "Ok"
    /\ escrow' = EscrowPayout(escrow, pw[id].amount)
    /\ pw' = [pw EXCEPT ![id] = [@ EXCEPT !.state = "claimed",
                                          !.claims = @ + 1,
                                          !.paid = @ + pw[id].amount,
                                          !.paid_to = user]]
    \* the transfer, then close = user returns the ticket's rent
    /\ wallet' = Credit(wallet, user, pw[id].amount + RentExempt)
    /\ last' = [Did("withdraw_funds", user, pw[id].amount,
                       <<Transfer("escrow", user, pw[id].amount)>>)
                   EXCEPT !.id = id]
    /\ UNCHANGED <<now, config, listing, offers, tx, dispute>>

\* ------------------------------------------------------------------------
\* The Transaction minted by buy_now / settle_auction / accept_offer
\* (lib.rs 819-844, 908-932, 1828-1853)
\* ------------------------------------------------------------------------
\* variant: the fee computation never reports an overflow
SaleFeeResultUnchecked(sale_price) == "Ok"

\* "MathOverflow" when the fee computation overflows, else "Ok"
SaleFeeResult(sale_price) ==
    IF BpsOf(sale_price, listing.platform_fee_bps) = NoInt THEN "MathOverflow"
    ELSE IF CheckedSub(sale_price, BpsOf(sale_price, listing.platform_fee_bps)) = NoInt
         THEN "MathOverflow"
    ELSE "Ok"

NewTransaction(buyer, sale_price, via) ==
    [exists |-> TRUE, created |-> tx.created + 1, seller |-> listing.seller,
     buyer |-> buyer, sale_price |-> sale_price,
     platform_fee |-> BpsOf(sale_price, listing.platform_fee_bps),
     seller_proceeds |->
         CheckedSub(sale_price, BpsOf(sale_price, listing.platform_fee_bps)),
     status |-> "InEscrow",
     transfer_deadline |-> now + TRANSFER_DEADLINE_SECONDS, created_at |-> now,
     seller_confirmed_transfer |-> FALSE, seller_confirmed_at |-> NoInt,
     completed_at |-> NoInt, uploads_verified |-> FALSE,
     verification_timestamp |-> NoInt, verification_hash |-> "", via |-> via]

\* ------------------------------------------------------------------------
\* buy_now (lib.rs 697-856, accounts 2544-2578)
\* ------------------------------------------------------------------------
BuyNowResult(buyer, pwAccount) ==
    IF ~listing.exists \/ ~escrow.exists THEN "AccountNotInitialized"
    ELSE IF tx.exists THEN "AccountAlreadyInUse"
    ELSE IF wallet[buyer] < RentExempt THEN "InsufficientFundsForRent"
    ELSE IF config.paused THEN "ContractPaused"
    ELSE IF listing.status # "Active" THEN "ListingNotActive"
    ELSE IF ~(now < listing.end_time) THEN "ListingExpired"
    ELSE IF listing.buy_now_price = NoInt THEN "BuyNowNotEnabled"
    ELSE IF buyer = listing.seller THEN "SellerCannotBuy"
    ELSE IF listing.payment_mint = APP_TOKEN_MINT THEN "InvalidPaymentMint"
    ELSE IF ~(wallet[buyer] - RentExempt >= listing.buy_now_price)
         THEN "InsufficientBalance"
    ELSE IF CheckedAdd(escrow.amount, listing.buy_now_price) = NoInt THEN "MathOverflow"
    ELSE IF BidDisplaces /\ pwAccount # listing.withdrawal_count + 1
         THEN "InvalidPreviousBidder"
    ELSE IF BidDisplaces
            /\ wallet[buyer] - RentExempt - listing.buy_now_price < RentExempt
         THEN "InsufficientFundsForRent"
    \* line 798: PendingWithdrawal::try_from_slice(&vec![0u8; space]) with
    \* space = 8 + INIT_SPACE leaves 8 bytes unread
    ELSE IF BidDisplaces
            /\ ~BorshTryFromSliceOk(DISCRIMINATOR_SIZE + PENDING_WITHDRAWAL_INIT_SPACE,
                                    PENDING_WITHDRAWAL_INIT_SPACE)
         THEN "BorshIoError"
    ELSE SaleFeeResult(listing.buy_now_price)

\* lines 730-737 and 755-758: the handler's copy of the Listing when it
\* returns
BuyNowListing(buyer) ==
    [listing EXCEPT
       !.current_bid = listing.buy_now_price,
       !.current_bidder = buyer,
       !.status = "Sold",
       !.end_time = now,
       !.withdrawal_count = IF BidDisplaces THEN @ + 1 ELSE @]

BuyNow(buyer, pwAccount) ==
    /\ BuyNowResult(buyer, pwAccount) = "Ok"
    /\ listing' = BuyNowListing(buyer)
    /\ escrow' = EscrowDeposit(escrow, listing.buy_now_price)
    /\ pw' = IF BidDisplaces
             THEN [pw EXCEPT ![pwAccount] =
                      [state |-> "pending", user |-> listing.current_bidder,
                       amount |-> listing.current_bid, created_at |-> now,
                       expires_at |-> now + WITHDRAWAL_EXPIRY_SECONDS,
                       withdrawal_id |-> listing.withdrawal_count + 1,
                       claims |-> 0, paid |-> 0, paid_to |-> NoKey]]
             ELSE pw
    /\ tx' = NewTransaction(buyer, listing.buy_now_price, "buy_now")
    /\ wallet' = Debit(wallet, buyer,
                       RentExempt + listing.buy_now_price
                       + (IF BidDisplaces THEN RentExempt ELSE 0))
    /\ last' = Did("buy_now", buyer, listing.buy_now_price,
                   <<Transfer(buyer, "escrow", listing.buy_now_price)>>)
    /\ UNCHANGED <<now, config, offers, dispute>>

\* ------------------------------------------------------------------------
\* settle_auction (lib.rs 858-944, accounts 2580-2612)
\* ------------------------------------------------------------------------
\* settle_auction without the end-time check of lines 873-878
SettleAuctionResultBeforeEnd(payer, bidderAccount) ==
    IF ~listing.exists \/ ~escrow.exists THEN "AccountNotInitialized"
    ELSE IF tx.exists THEN "AccountAlreadyInUse"
    ELSE IF wallet[payer] < RentExempt THEN "InsufficientFundsForRent"
    ELSE IF config.paused THEN "ContractPaused"
    ELSE IF listing.status # "Active" THEN "ListingNotActive"
    ELSE IF listing.listing_type # "Auction" THEN "NotAnAuction"
    ELSE IF ~(payer = listing.seller
              \/ (listing.current_bidder # NoKey /\ payer = listing.current_bidder)
              \/ payer = config.admin)
         THEN "UnauthorizedSettlement"
    ELSE IF listing.current_bidder = NoKey THEN "NoBidsToSettle"
    ELSE IF bidderAccount # listing.current_bidder THEN "InvalidBidder"
    ELSE SaleFeeResult(listing.current_bid)

SettleAuctionResult(payer, bidderAccount) ==
    IF ~listing.exists \/ ~escrow.exists THEN "AccountNotInitialized"
    ELSE IF tx.exists THEN "AccountAlreadyInUse"
    ELSE IF wallet[payer] < RentExempt THEN "InsufficientFundsForRent"
    ELSE IF config.paused THEN "ContractPaused"
    ELSE IF listing.status # "Active" THEN "ListingNotActive"
    ELSE IF listing.listing_type # "Auction" THEN "NotAnAuction"
    ELSE IF listing.auction_started /\ ~(now >= listing.end_time) THEN "AuctionNotEnded"
    ELSE IF ~(payer = listing.seller
              \/ (listing.current_bidder # NoKey /\ payer = listing.current_bidder)
              \/ payer = config.admin)
         THEN "UnauthorizedSettlement"
    ELSE IF listing.current_bidder = NoKey THEN "NoBidsToSettle"
    ELSE IF bidderAccount # listing.current_bidder THEN "InvalidBidder"
    ELSE SaleFeeResult(listing.current_bid)

SettleAuction(payer, bidderAccount) ==
    /\ SettleAuctionResult(payer, bidderAccount) = "Ok"
    /\ listing' = [listing EXCEPT !.status = "Sold"]
    /\ tx' = NewTransaction(listing.current_bidder, listing.current_bid, "settle_auction")
    /\ wallet' = Debit(wallet, payer, RentExempt)
    /\ last' = Did("settle_auction", payer, listing.current_bid, <<>>)
    /\ UNCHANGED <<now, config, escrow, pw, offers, dispute>>

\* ------------------------------------------------------------------------
\* Closing the listing Escrow (#[account(close = ...)]): every lamport of the
\* account goes to the recipient and the account ceases to exist
\* ------------------------------------------------------------------------
CloseEscrow(e) == [e EXCEPT !.exists = FALSE, !.lamports = 0]

\* ------------------------------------------------------------------------
\* cancel_auction (lib.rs 946-991, accounts 2614-2635)
\* ------------------------------------------------------------------------
CancelAuctionResult(seller) ==
    IF ~listing.exists \/ ~escrow.exists THEN "AccountNotInitialized"
    ELSE IF config.paused THEN "PlatformPaused"
    ELSE IF listing.status # "Active" THEN "ListingNotActive"
    ELSE IF listing.listing_type # "Auction" THEN "NotAnAuction"
    ELSE IF seller # listing.seller THEN "NotSeller"
    ELSE IF listing.current_bidder # NoKey THEN "CannotCancelWithBids"
    ELSE IF listing.auction_started /\ ~(now >= listing.end_time) THEN "AuctionNotEnded"
    ELSE "Ok"

CancelAuction(seller) ==
    /\ CancelAuctionResult(seller) = "Ok"
    /\ listing' = [listing EXCEPT !.status = "Cancelled"]
    /\ escrow' = CloseEscrow(escrow)
    /\ wallet' = Credit(wallet, seller, escrow.lamports)
    /\ last' = Did("cancel_auction", seller, 0, <<>>)
    /\ UNCHANGED <<now, config, pw, offers, tx, dispute>>

\* ------------------------------------------------------------------------
\* expire_listing (lib.rs 993-1022, accounts 2637-2658): no signer is
\* required, the seller account only receives the rent
\* ------------------------------------------------------------------------
ExpireListingResult(sellerAccount) ==
    IF ~listing.exists \/ ~escrow.exists THEN "AccountNotInitialized"
    ELSE IF listing.seller # sellerAccount THEN "NotSeller"
    ELSE IF config.paused THEN "PlatformPaused"
    ELSE IF listing.status # "Active" THEN "ListingNotActive"
    ELSE IF ~(now >= listing.end_time) THEN "ListingNotExpired"
    ELSE IF listing.current_bidder # NoKey THEN "HasBids"
    ELSE "Ok"

ExpireListing(caller, sellerAccount) ==
    /\ ExpireListingResult(sellerAccount) = "Ok"
    /\ listing' = [listing EXCEPT !.status = "Expired"]
    /\ escrow' = CloseEscrow(escrow)
    /\ wallet' = Credit(wallet, sellerAccount, escrow.lamports)
    /\ last' = Did("expire_listing", caller, 0, <<>>)
    /\ UNCHANGED <<now, config, pw, offers, tx, dispute>>

\* ------------------------------------------------------------------------
\* cancel_listing (lib.rs 2379-2398, accounts 3105-3121)
\* ------------------------------------------------------------------------
\* cancel_listing without the check of line 2388
CancelListingResultWithBids(seller) ==
    IF ~listing.exists \/ ~escrow.exists THEN "AccountNotInitialized"
    ELSE IF listing.status # "Active" THEN "ListingNotActive"
    ELSE IF seller # listing.seller THEN "NotSeller"
    ELSE "Ok"

CancelListingResult(seller) ==
    IF ~listing.exists \/ ~escrow.exists THEN "AccountNotInitialized"
    ELSE IF listing.status # "Active" THEN "ListingNotActive"
    ELSE IF seller # listing.seller THEN "NotSeller"
    ELSE IF listing.current_bidder # NoKey THEN "HasBids"
    ELSE "Ok"

CancelListing(seller) ==
    /\ CancelListingResult(seller) = "Ok"
    /\ listing' = [listing EXCEPT !.status = "Cancelled"]
    /\ escrow' = CloseEscrow(escrow)
    /\ wallet' = Credit(wallet, seller, escrow.lamports)
    /\ last' = Did("cancel_listing", seller, 0, <<>>)
    /\ UNCHANGED <<now, config, pw, offers, tx, dispute>>

\* ------------------------------------------------------------------------
\* make_offer (lib.rs 1427-1537, accounts 2793-2829)
\* ------------------------------------------------------------------------
\* lines 1466-1499: the Listing as the handler leaves it in memory
MakeOfferListingInMemory(buyer) ==
    [listing EXCEPT
       !.last_offer_buyer = buyer,
       !.consecutive_offer_count =
           IF listing.last_offer_buyer = buyer THEN @ + 1 ELSE 1,
       !.offer_count = @ + 1]

\* MakeOffer declares `listing: Account<Listing>` without `mut` (line 2799):
\* Anchor writes back only the accounts marked mut, so the handler's
\* in-memory updates of the Listing are not persisted
MakeOfferListingPersisted(buyer, isMut) ==
    IF isMut THEN MakeOfferListingInMemory(buyer) ELSE listing

\* make_offer without the status check of line 1441
MakeOfferResultAnyStatus(buyer, amount, deadline, offer_seed) ==
    IF ~listing.exists THEN "AccountNotInitialized"
    ELSE IF offers[<<buyer, offer_seed>>].exists THEN "AccountAlreadyInUse"
    ELSE IF wallet[buyer] < RentExempt + RentExempt THEN "InsufficientFundsForRent"
    ELSE IF config.paused THEN "ContractPaused"
    ELSE IF ~(amount > 0) THEN "InvalidPrice"
    ELSE IF ~(deadline > now) THEN "InvalidDeadline"
    ELSE IF buyer = listing.seller THEN "SellerCannotOffer"
    ELSE IF ~(wallet[buyer] - RentExempt - RentExempt >= amount)
         THEN "InsufficientBalance"
    ELSE IF ~(listing.offer_count < MAX_OFFERS_PER_LISTING) THEN "MaxOffersExceeded"
    ELSE IF listing.last_offer_buyer = buyer
            /\ ~(listing.consecutive_offer_count < MAX_CONSECUTIVE_OFFERS)
         THEN "MaxConsecutiveOffersExceeded"
    ELSE IF offer_seed # listing.offer_count THEN "InvalidOfferSeed"
    ELSE "Ok"

MakeOfferResult(buyer, amount, deadline, offer_seed) ==
    IF ~listing.exists THEN "AccountNotInitialized"
    ELSE IF offers[<<buyer, offer_seed>>].exists THEN "AccountAlreadyInUse"
    ELSE IF wallet[buyer] < RentExempt + RentExempt THEN "InsufficientFundsForRent"
    ELSE IF config.paused THEN "ContractPaused"
    ELSE IF listing.status # "Active" THEN "ListingNotActive"
    ELSE IF ~(amount > 0) THEN "InvalidPrice"
    ELSE IF ~(deadline > now) THEN "InvalidDeadline"
    ELSE IF buyer = listing.seller THEN "SellerCannotOffer"
    ELSE IF ~(wallet[buyer] - RentExempt - RentExempt >= amount)
         THEN "InsufficientBalance"
    ELSE IF ~(listing.offer_count < MAX_OFFERS_PER_LISTING) THEN "MaxOffersExceeded"
    ELSE IF listing.last_offer_buyer = buyer
            /\ ~(listing.consecutive_offer_count < MAX_CONSECUTIVE_OFFERS)
         THEN "MaxConsecutiveOffersExceeded"
    ELSE IF offer_seed # listing.offer_count THEN "InvalidOfferSeed"
    ELSE "Ok"

MakeOffer(buyer, amount, deadline, offer_seed) ==
    /\ MakeOfferResult(buyer, amount, deadline, offer_seed) = "Ok"
    /\ listing' = MakeOfferListingPersisted(buyer, FALSE)
    /\ offers' = [offers EXCEPT ![<<buyer, offer_seed>>] =
          [exists |-> TRUE, buyer |-> buyer, amount |-> amount,
           deadline |-> deadline, status |-> "Active", created_at |-> now,
           escrow_exists |-> TRUE, escrow_amount |-> amount,
           escrow_lamports |-> RentExempt + amount, payouts |-> 0]]
    /\ wallet' = Debit(wallet, buyer, RentExempt + RentExempt + amount)
    /\ last' = [Did("make_offer", buyer, amount,
                    <<Transfer(buyer, "offer_escrow", amount)>>)
                EXCEPT !.id = offer_seed]
    /\ UNCHANGED <<now, config, escrow, pw, tx, dispute>>

\* ------------------------------------------------------------------------
\* cancel_offer (lib.rs 1539-1608, accounts 2831-2852)
\* ------------------------------------------------------------------------
\* lines 1563-1570 and 1640-1647
OfferCountAfterRemoval(buyer) ==
    IF listing.last_offer_buyer = buyer /\ listing.consecutive_offer_count > 0
    THEN SaturatingSub(listing.consecutive_offer_count, 1)
    ELSE listing.consecutive_offer_count

\* variant: cancel_offer refused while the platform is paused or the listing
\* is no longer Active
CancelOfferResultGated(buyer, k) ==
    IF ~listing.exists \/ ~offers[k].exists \/ ~offers[k].escrow_exists
    THEN "AccountNotInitialized"
    ELSE IF config.paused THEN "ContractPaused"
    ELSE IF listing.status # "Active" THEN "ListingNotActive"
    ELSE IF buyer # offers[k].buyer THEN "NotOfferOwner"
    ELSE IF offers[k].status # "Active" THEN "OfferNotActive"
    ELSE IF ~(offers[k].escrow_lamports >= offers[k].amount + RentExempt)
         THEN "InsufficientEscrowBalance"
    ELSE "Ok"

CancelOfferResult(buyer, k) ==
    IF ~listing.exists \/ ~offers[k].exists \/ ~offers[k].escrow_exists
    THEN "AccountNotInitialized"
    ELSE IF buyer # offers[k].buyer THEN "NotOfferOwner"
    ELSE IF offers[k].status # "Active" THEN "OfferNotActive"
    ELSE IF ~(offers[k].escrow_lamports >= offers[k].amount + RentExempt)
         THEN "InsufficientEscrowBalance"
    ELSE "Ok"

CancelOffer(buyer, k) ==
    /\ CancelOfferResult(buyer, k) = "Ok"
    /\ offers' = [offers EXCEPT ![k] =
          [@ EXCEPT !.status = "Cancelled", !.escrow_exists = FALSE,
                    !.escrow_lamports = 0, !.payouts = @ + 1]]
    /\ listing' = [listing EXCEPT
                     !.consecutive_offer_count = OfferCountAfterRemoval(buyer)]
    /\ wallet' = Credit(wallet, buyer, offers[k].escrow_lamports)
    /\ last' = Did("cancel_offer", buyer, offers[k].amount,
                   <<Transfer("offer_escrow", buyer, offers[k].amount)>>)
    /\ UNCHANGED <<now, config, escrow, pw, tx, dispute>>

\* ------------------------------------------------------------------------
\* expire_offer (lib.rs 1610-1685, accounts 2854-2883)
\* ------------------------------------------------------------------------
ExpireOfferResult(caller, k, buyerAccount) ==
    IF ~listing.exists \/ ~offers[k].exists \/ ~offers[k].escrow_exists
    THEN "AccountNotInitialized"
    ELSE IF buyerAccount # offers[k].buyer THEN "InvalidBuyer"
    ELSE IF offers[k].status # "Active" THEN "OfferNotActive"
    ELSE IF ~(now > offers[k].deadline) THEN "OfferNotExpired"
    ELSE IF caller # offers[k].buyer THEN "NotOfferOwner"
    ELSE IF ~(offers[k].escrow_lamports >= offers[k].amount + RentExempt)
         THEN "InsufficientEscrowBalance"
    ELSE "Ok"

ExpireOffer(caller, k, buyerAccount) ==
    /\ ExpireOfferResult(caller, k, buyerAccount) = "Ok"
    /\ offers' = [offers EXCEPT ![k] =
          [@ EXCEPT !.status = "Expired", !.escrow_exists = FALSE,
                    !.escrow_lamports = 0, !.payouts = @ + 1]]
    /\ listing' = [listing EXCEPT
                     !.consecutive_offer_count =
                         OfferCountAfterRemoval(offers[k].buyer)]
    /\ wallet' = Credit(wallet, buyerAccount, offers[k].escrow_lamports)
    /\ last' = Did("expire_offer", caller, offers[k].amount,
                   <<Transfer("offer_escrow", buyerAccount, offers[k].amount)>>)
    /\ UNCHANGED <<now, config, escrow, pw, tx, dispute>>

\* ------------------------------------------------------------------------
\* accept_offer (lib.rs 1687-1866, accounts 2885-2935)
\* ------------------------------------------------------------------------
\* lines 1761-1762: a ticket is minted for the standing bidder
OfferDisplaces(k) ==
    /\ listing.current_bidder # NoKey
    /\ listing.current_bidder # offers[k].buyer
    /\ listing.current_bid > 0

AcceptOfferResult(seller, k, buyerAccount, pwAccount) ==
    IF ~listing.exists \/ ~escrow.exists \/ ~offers[k].exists
       \/ ~offers[k].escrow_exists
    THEN "AccountNotInitialized"
    ELSE IF offers[k].buyer # buyerAccount THEN "InvalidBuyer"
    ELSE IF tx.exists THEN "AccountAlreadyInUse"
    ELSE IF wallet[seller] < RentExempt THEN "InsufficientFundsForRent"
    ELSE IF config.paused THEN "ContractPaused"
    ELSE IF seller # listing.seller THEN "NotSeller"
    ELSE IF listing.status # "Active" THEN "ListingNotActive"
    ELSE IF offers[k].status # "Active" THEN "OfferNotActive"
    ELSE IF ~(now <= offers[k].deadline) THEN "OfferExpired"
    ELSE IF ~(offers[k].escrow_lamports >= offers[k].amount + RentExempt)
         THEN "InsufficientEscrowBalance"
    ELSE IF CheckedAdd(escrow.amount, offers[k].amount) = NoInt THEN "MathOverflow"
    ELSE IF OfferDisplaces(k) /\ pwAccount # listing.withdrawal_count + 1
         THEN "InvalidPreviousBidder"
    ELSE IF OfferDisplaces(k) /\ wallet[seller] - RentExempt < RentExempt
         THEN "InsufficientFundsForRent"
    ELSE SaleFeeResult(offers[k].amount)

AcceptOffer(seller, k, buyerAccount, pwAccount) ==
    /\ AcceptOfferResult(seller, k, buyerAccount, pwAccount) = "Ok"
    /\ offers' = [offers EXCEPT ![k] =
          [@ EXCEPT !.status = "Accepted", !.escrow_exists = FALSE,
                    !.escrow_lamports = 0, !.payouts = @ + 1]]
    /\ listing' =
          [listing EXCEPT
             !.status = "Sold",
             !.current_bid = offers[k].amount,
             !.current_bidder = offers[k].buyer,
             !.last_offer_buyer = NoKey,
             !.consecutive_offer_count = 0,
             !.withdrawal_count = IF OfferDisplaces(k) THEN @ + 1 ELSE @]
    /\ escrow' = EscrowDeposit(escrow, offers[k].amount)
    /\ pw' = IF OfferDisplaces(k)
             THEN [pw EXCEPT ![pwAccount] =
                      [state |-> "pending", user |-> listing.current_bidder,
                       amount |-> listing.current_bid, created_at |-> now,
                       expires_at |-> now + WITHDRAWAL_EXPIRY_SECONDS,
                       withdrawal_id |-> listing.withdrawal_count + 1,
                       claims |-> 0, paid |-> 0, paid_to |-> NoKey]]
             ELSE pw
    /\ tx' = NewTransaction(offers[k].buyer, offers[k].amount, "accept_offer")
    \* the seller pays the Transaction's (and the ticket's) rent; close = buyer
    \* returns what is left in the OfferEscrow
    /\ wallet' = Credit(Debit(wallet, seller,
                              RentExempt
                              + (IF OfferDisplaces(k) THEN RentExempt ELSE 0)),
                        buyerAccount,
                        offers[k].escrow_lamports - offers[k].amount)
    /\ last' = Did("accept_offer", seller, offers[k].amount,
                   <<Transfer("offer_escrow", "escrow", offers[k].amount)>>)
    /\ UNCHANGED <<now, config, dispute>>

\* ------------------------------------------------------------------------
\* seller_confirm_transfer (lib.rs 1024-1053, accounts 2660-2672)
\* ------------------------------------------------------------------------
\* variant: seller_confirm_transfer without the requirement of lines 1038-1041
SellerConfirmTransferResultRepeatable(seller) ==
    IF ~tx.exists \/ ~listing.exists THEN "AccountNotInitialized"
    ELSE IF tx.status # "InEscrow" THEN "InvalidTransactionStatus"
    ELSE IF seller # tx.seller THEN "NotSeller"
    ELSE "Ok"

SellerConfirmTransferResult(seller) ==
    IF ~tx.exists \/ ~listing.exists THEN "AccountNotInitialized"
    ELSE IF tx.status # "InEscrow" THEN "InvalidTransactionStatus"
    ELSE IF seller # tx.seller THEN "NotSeller"
    ELSE IF tx.seller_confirmed_transfer THEN "AlreadyConfirmed"
    ELSE "Ok"

SellerConfirmTransfer(seller) ==
    /\ SellerConfirmTransferResult(seller) = "Ok"
    /\ tx' = [tx EXCEPT !.seller_confirmed_transfer = TRUE,
                        !.seller_confirmed_at = now]
    /\ last' = Did("seller_confirm_transfer", seller, 0, <<>>)
    /\ UNCHANGED <<now, config, listing, escrow, pw, offers, dispute, wallet>>

\* ------------------------------------------------------------------------
\* verify_uploads (lib.rs 1055-1090, accounts 2674-2684)
\* ------------------------------------------------------------------------
VerifyUploadsResult(backend_authority) ==
    IF ~tx.exists THEN "AccountNotInitialized"
    ELSE IF backend_authority # config.backend_authority THEN "NotBackendAuthority"
    ELSE IF ~tx.seller_confirmed_transfer THEN "SellerNotConfirmed"
    ELSE IF tx.uploads_verified THEN "AlreadyVerified"
    ELSE "Ok"

VerifyUploads(backend_authority, verification_hash) ==
    /\ VerifyUploadsResult(backend_authority) = "Ok"
    /\ tx' = [tx EXCEPT !.uploads_verified = TRUE,
                        !.verification_timestamp = now,
                        !.verification_hash = verification_hash]
    /\ last' = Did("verify_uploads", backend_authority, 0, <<>>)
    /\ UNCHANGED <<now, config, listing, escrow, pw, offers, dispute, wallet>>

\* ------------------------------------------------------------------------
\* emergency_auto_verify (lib.rs 1092-1136, accounts 2686-2696)
\* ------------------------------------------------------------------------
\* variant: emergency_auto_verify without the timeout of lines 1117-1121
EmergencyAutoVerifyResultAtOnce(buyer) ==
    IF ~tx.exists THEN "AccountNotInitialized"
    ELSE IF config.paused THEN "ContractPaused"
    ELSE IF buyer # tx.buyer THEN "NotBuyer"
    ELSE IF ~tx.seller_confirmed_transfer THEN "SellerNotConfirmed"
    ELSE IF tx.uploads_verified THEN "AlreadyVerified"
    ELSE IF tx.seller_confirmed_at = NoInt THEN "SellerNotConfirmed"
    ELSE "Ok"

EmergencyAutoVerifyResult(buyer) ==
    IF ~tx.exists THEN "AccountNotInitialized"
    ELSE IF config.paused THEN "ContractPaused"
    ELSE IF buyer # tx.buyer THEN "NotBuyer"
    ELSE IF ~tx.seller_confirmed_transfer THEN "SellerNotConfirmed"
    ELSE IF tx.uploads_verified THEN "AlreadyVerified"
    ELSE IF tx.seller_confirmed_at = NoInt THEN "SellerNotConfirmed"
    ELSE IF ~(now >= tx.seller_confirmed_at + BACKEND_TIMEOUT_SECONDS)
         THEN "BackendTimeoutNotExpired"
    ELSE "Ok"

EmergencyAutoVerify(buyer) ==
    /\ EmergencyAutoVerifyResult(buyer) = "Ok"
    /\ tx' = [tx EXCEPT !.uploads_verified = TRUE,
                        !.verification_timestamp = now,
                        !.verification_hash = "EMERGENCY_BUYER_TIMEOUT"]
    /\ last' = Did("emergency_auto_verify", buyer, 0, <<>>)
    /\ UNCHANGED <<now, config, listing, escrow, pw, offers, dispute, wallet>>

\* ------------------------------------------------------------------------
\* admin_emergency_verify (lib.rs 1138-1182, accounts 2698-2708)
\* ------------------------------------------------------------------------
AdminEmergencyVerifyResult(admin) ==
    IF ~tx.exists THEN "AccountNotInitialized"
    ELSE IF config.paused THEN "ContractPaused"
    ELSE IF admin # config.admin THEN "NotAdmin"
    ELSE IF ~tx.seller_confirmed_transfer THEN "SellerNotConfirmed"
    ELSE IF tx.uploads_verified THEN "AlreadyVerified"
    ELSE IF tx.seller_confirmed_at = NoInt THEN "SellerNotConfirmed"
    ELSE IF ~(now >= tx.seller_confirmed_at + BACKEND_TIMEOUT_SECONDS)
         THEN "BackendTimeoutNotExpired"
    ELSE "Ok"

AdminEmergencyVerify(admin) ==
    /\ AdminEmergencyVerifyResult(admin) = "Ok"
    /\ tx' = [tx EXCEPT !.uploads_verified = TRUE,
                        !.verification_timestamp = now,
                        !.verification_hash = "EMERGENCY_ADMIN_OVERRIDE"]
    /\ last' = Did("admin_emergency_verify", admin, 0, <<>>)
    /\ UNCHANGED <<now, config, listing, escrow, pw, offers, dispute, wallet>>

\* ------------------------------------------------------------------------
\* Release of a completed sale (lib.rs 1254-1299 and 1368-1413): fee to the
\* treasury, proceeds to the seller, both subtracted from escrow.amount, the
\* Escrow closed to the seller, the statistics advanced
\* ------------------------------------------------------------------------
ReleaseEscrow(e) ==
    CloseEscrow(EscrowPayout(EscrowPayout(e, tx.platform_fee), tx.seller_proceeds))

ReleaseWallets(seller, treasury) ==
    Credit(Credit(wallet, treasury, tx.platform_fee),
           seller, escrow.lamports - tx.platform_fee)

\* variant: the statistics advanced with wrapping additions
ReleaseStatsWrapping ==
    [config EXCEPT !.total_volume = (@ + tx.sale_price) % (U64_MAX + 1),
                   !.total_sales = (@ + 1) % (U64_MAX + 1)]

ReleaseStats ==
    [config EXCEPT !.total_volume = SaturatingAdd(@, tx.sale_price),
                   !.total_sales = SaturatingAdd(@, 1)]

\* ------------------------------------------------------------------------
\* finalize_transaction (lib.rs 1184-1311, accounts 2710-2748)
\* ------------------------------------------------------------------------
\* variant: finalize_transaction without the escrow.amount == required_balance
\* requirement of lines 1248-1252
FinalizeTransactionResultUnguarded(seller, isSigner, treasury) ==
    IF ~tx.exists \/ ~listing.exists \/ ~escrow.exists THEN "AccountNotInitialized"
    ELSE IF seller # tx.seller THEN "InvalidSeller"
    ELSE IF treasury # config.treasury THEN "InvalidTreasury"
    ELSE IF config.paused THEN "ContractPaused"
    ELSE IF ~isSigner THEN "SellerMustSign"
    ELSE IF tx.status = "Disputed" THEN "CannotFinalizeDisputed"
    ELSE IF tx.status # "InEscrow" THEN "InvalidTransactionStatus"
    ELSE IF ~tx.seller_confirmed_transfer THEN "SellerNotConfirmed"
    ELSE IF ~tx.uploads_verified THEN "UploadsNotVerified"
    ELSE IF ~(now >= tx.seller_confirmed_at + FINALIZE_GRACE_PERIOD)
         THEN "GracePeriodNotExpired"
    ELSE IF CheckedAdd(tx.platform_fee, tx.seller_proceeds) = NoInt THEN "MathOverflow"
    ELSE IF ~(escrow.lamports >= tx.platform_fee + tx.seller_proceeds + RentExempt)
         THEN "InsufficientEscrowBalance"
    ELSE "Ok"

\* variant: finalize_transaction without the grace period of lines 1222-1226
FinalizeTransactionResultWithoutGrace(seller, isSigner, treasury) ==
    IF ~tx.exists \/ ~listing.exists \/ ~escrow.exists THEN "AccountNotInitialized"
    ELSE IF seller # tx.seller THEN "InvalidSeller"
    ELSE IF treasury # config.treasury THEN "InvalidTreasury"
    ELSE IF config.paused THEN "ContractPaused"
    ELSE IF ~isSigner THEN "SellerMustSign"
    ELSE IF tx.status = "Disputed" THEN "CannotFinalizeDisputed"
    ELSE IF tx.status # "InEscrow" THEN "InvalidTransactionStatus"
    ELSE IF ~tx.seller_confirmed_transfer THEN "SellerNotConfirmed"
    ELSE IF ~tx.uploads_verified THEN "UploadsNotVerified"
    ELSE IF CheckedAdd(tx.platform_fee, tx.seller_proceeds) = NoInt THEN "MathOverflow"
    ELSE IF ~(escrow.lamports >= tx.platform_fee + tx.seller_proceeds + RentExempt)
         THEN "InsufficientEscrowBalance"
    ELSE IF escrow.amount # tx.platform_fee + tx.seller_proceeds
         THEN "PendingWithdrawalsExist"
    ELSE "Ok"

FinalizeTransactionResult(seller, isSigner, treasury) ==
    IF ~tx.exists \/ ~listing.exists \/ ~escrow.exists THEN "AccountNotInitialized"
    ELSE IF seller # tx.seller THEN "InvalidSeller"
    ELSE IF treasury # config.treasury THEN "InvalidTreasury"
    ELSE IF config.paused THEN "ContractPaused"
    ELSE IF ~isSigner THEN "SellerMustSign"
    ELSE IF tx.status = "Disputed" THEN "CannotFinalizeDisputed"
    ELSE IF tx.status # "InEscrow" THEN "InvalidTransactionStatus"
    ELSE IF ~tx.seller_confirmed_transfer THEN "SellerNotConfirmed"
    ELSE IF ~tx.uploads_verified THEN "UploadsNotVerified"
    ELSE IF ~(now >= tx.seller_confirmed_at + FINALIZE_GRACE_PERIOD)
         THEN "GracePeriodNotExpired"
    ELSE IF CheckedAdd(tx.platform_fee, tx.seller_proceeds) = NoInt THEN "MathOverflow"
    ELSE IF ~(escrow.lamports >= tx.platform_fee + tx.seller_proceeds + RentExempt)
         THEN "InsufficientEscrowBalance"
    ELSE IF escrow.amount # tx.platform_fee + tx.seller_proceeds
         THEN "PendingWithdrawalsExist"
    ELSE "Ok"

FinalizeTransaction(seller, isSigner, treasury) ==
    /\ FinalizeTransactionResult(seller, isSigner, treasury) = "Ok"
    /\ escrow' = ReleaseEscrow(escrow)
    /\ wallet' = ReleaseWallets(seller, treasury)
    /\ tx' = [tx EXCEPT !.status = "Completed", !.completed_at = now]
    /\ config' = ReleaseStats
    /\ last' = Did("finalize_transaction", seller, tx.sale_price,
                   <<Transfer("escrow", treasury, tx.platform_fee),
                     Transfer("escrow", seller, tx.seller_proceeds)>>)
    /\ UNCHANGED <<now, listing, pw, offers, dispute>>

\* ------------------------------------------------------------------------
\* confirm_receipt (lib.rs 1313-1425, accounts 2750-2791)
\* ------------------------------------------------------------------------
\* variant: confirm_receipt without the status requirement of line 1321
ConfirmReceiptResultAnyStatus(buyer, seller, treasury) ==
    IF ~tx.exists \/ ~listing.exists \/ ~escrow.exists THEN "AccountNotInitialized"
    ELSE IF seller # tx.seller THEN "InvalidSeller"
    ELSE IF treasury # config.treasury THEN "InvalidTreasury"
    ELSE IF config.paused THEN "ContractPaused"
    ELSE IF buyer # tx.buyer THEN "NotBuyer"
    ELSE IF ~tx.uploads_verified THEN "UploadsNotVerified"
    ELSE IF CheckedAdd(tx.platform_fee, tx.seller_proceeds) = NoInt THEN "MathOverflow"
    ELSE IF ~(escrow.lamports >= tx.platform_fee + tx.seller_proceeds + RentExempt)
         THEN "InsufficientEscrowBalance"
    ELSE IF CheckedAdd(escrow.amount, RentExempt) = NoInt THEN "MathOverflow"
    ELSE IF ~(escrow.lamports >= escrow.amount + RentExempt)
         THEN "EscrowBalanceMismatch"
    ELSE IF escrow.amount # tx.platform_fee + tx.seller_proceeds
         THEN "PendingWithdrawalsExist"
    ELSE "Ok"

ConfirmReceiptResult(buyer, seller, treasury) ==
    IF ~tx.exists \/ ~listing.exists \/ ~escrow.exists THEN "AccountNotInitialized"
    ELSE IF seller # tx.seller THEN "InvalidSeller"
    ELSE IF treasury # config.treasury THEN "InvalidTreasury"
    ELSE IF config.paused THEN "ContractPaused"
    ELSE IF tx.status # "InEscrow" THEN "InvalidTransactionStatus"
    ELSE IF buyer # tx.buyer THEN "NotBuyer"
    ELSE IF ~tx.uploads_verified THEN "UploadsNotVerified"
    ELSE IF CheckedAdd(tx.platform_fee, tx.seller_proceeds) = NoInt THEN "MathOverflow"
    ELSE IF ~(escrow.lamports >= tx.platform_fee + tx.seller_proceeds + RentExempt)
         THEN "InsufficientEscrowBalance"
    ELSE IF CheckedAdd(escrow.amount, RentExempt) = NoInt THEN "MathOverflow"
    ELSE IF ~(escrow.lamports >= escrow.amount + RentExempt)
         THEN "EscrowBalanceMismatch"
    ELSE IF escrow.amount # tx.platform_fee + tx.seller_proceeds
         THEN "PendingWithdrawalsExist"
    ELSE "Ok"

ConfirmReceipt(buyer, seller, treasury) ==
    /\ ConfirmReceiptResult(buyer, seller, treasury) = "Ok"
    /\ escrow' = ReleaseEscrow(escrow)
    /\ wallet' = ReleaseWallets(seller, treasury)
    /\ tx' = [tx EXCEPT !.status = "Completed", !.completed_at = now]
    /\ config' = ReleaseStats
    /\ last' = Did("confirm_receipt", buyer, tx.sale_price,
                   <<Transfer("escrow", treasury, tx.platform_fee),
                     Transfer("escrow", seller, tx.seller_proceeds)>>)
    /\ UNCHANGED <<now, listing, pw, offers, dispute>>

\* ------------------------------------------------------------------------
\* open_dispute (lib.rs 1868-1952, accounts 2937-2971)
\* ------------------------------------------------------------------------
\* variant: open_dispute without the InEscrow requirement of lines 1877-1878
OpenDisputeResultAnyStatus(initiator, treasury) ==
    IF ~tx.exists \/ ~listing.exists THEN "AccountNotInitialized"
    ELSE IF dispute.exists THEN "AccountAlreadyInUse"
    ELSE IF wallet[initiator] < RentExempt THEN "InsufficientFundsForRent"
    ELSE IF treasury # config.treasury THEN "InvalidTreasury"
    ELSE IF config.paused THEN "PlatformPaused"
    ELSE IF ~(initiator = tx.buyer \/ initiator = tx.seller)
         THEN "NotPartyToTransaction"
    ELSE IF tx.seller_confirmed_at # NoInt
            /\ ~(now <= tx.seller_confirmed_at + FINALIZE_GRACE_PERIOD)
         THEN "DisputeDeadlineExpired"
    ELSE IF BpsOf(tx.sale_price, listing.dispute_fee_bps) = NoInt THEN "MathOverflow"
    ELSE IF ~(wallet[initiator] - RentExempt
                >= BpsOf(tx.sale_price, listing.dispute_fee_bps))
         THEN "InsufficientBalance"
    ELSE "Ok"

\* variant: open_dispute without the dispute deadline of lines 1891-1896
OpenDisputeResultAnyTime(initiator, treasury) ==
    IF ~tx.exists \/ ~listing.exists THEN "AccountNotInitialized"
    ELSE IF dispute.exists THEN "AccountAlreadyInUse"
    ELSE IF wallet[initiator] < RentExempt THEN "InsufficientFundsForRent"
    ELSE IF treasury # config.treasury THEN "InvalidTreasury"
    ELSE IF config.paused THEN "PlatformPaused"
    ELSE IF tx.status # "InEscrow" THEN "InvalidTransactionStatus"
    ELSE IF ~(initiator = tx.buyer \/ initiator = tx.seller)
         THEN "NotPartyToTransaction"
    ELSE IF BpsOf(tx.sale_price, listing.dispute_fee_bps) = NoInt THEN "MathOverflow"
    ELSE IF ~(wallet[initiator] - RentExempt
                >= BpsOf(tx.sale_price, listing.dispute_fee_bps))
         THEN "InsufficientBalance"
    ELSE "Ok"

OpenDisputeResult(initiator, treasury) ==
    IF ~tx.exists \/ ~listing.exists THEN "AccountNotInitialized"
    ELSE IF dispute.exists THEN "AccountAlreadyInUse"
    ELSE IF wallet[initiator] < RentExempt THEN "InsufficientFundsForRent"
    ELSE IF treasury # config.treasury THEN "InvalidTreasury"
    ELSE IF config.paused THEN "PlatformPaused"
    ELSE IF tx.status # "InEscrow" THEN "InvalidTransactionStatus"
    ELSE IF ~(initiator = tx.buyer \/ initiator = tx.seller)
         THEN "NotPartyToTransaction"
    ELSE IF tx.seller_confirmed_at # NoInt
            /\ ~(now <= tx.seller_confirmed_at + FINALIZE_GRACE_PERIOD)
         THEN "DisputeDeadlineExpired"
    ELSE IF BpsOf(tx.sale_price, listing.dispute_fee_bps) = NoInt THEN "MathOverflow"
    ELSE IF ~(wallet[initiator] - RentExempt
                >= BpsOf(tx.sale_price, listing.dispute_fee_bps))
         THEN "InsufficientBalance"
    ELSE "Ok"

OpenDispute(initiator, treasury) ==
    /\ OpenDisputeResult(initiator, treasury) = "Ok"
    /\ tx' = [tx EXCEPT !.status = "Disputed"]
    /\ dispute' =
          [exists |-> TRUE, created |-> dispute.created + 1,
           initiator |-> initiator,
           respondent |-> IF initiator = tx.buyer THEN tx.seller ELSE tx.buyer,
           status |-> "Open", resolution |-> "none",
           dispute_fee |-> BpsOf(tx.sale_price, listing.dispute_fee_bps),
           created_at |-> now, resolved_at |-> NoInt,
           pending_resolution |-> "none", pending_buyer_amount |-> NoInt,
           pending_seller_amount |-> NoInt, pending_resolution_at |-> NoInt,
           contested |-> FALSE,
           lamports |-> RentExempt + BpsOf(tx.sale_price, listing.dispute_fee_bps)]
    /\ wallet' = Debit(wallet, initiator,
                       RentExempt + BpsOf(tx.sale_price, listing.dispute_fee_bps))
    /\ last' = Did("open_dispute", initiator,
                   BpsOf(tx.sale_price, listing.dispute_fee_bps),
                   <<Transfer(initiator, "dispute",
                              BpsOf(tx.sale_price, listing.dispute_fee_bps))>>)
    /\ UNCHANGED <<now, config, listing, escrow, pw, offers>>

\* ------------------------------------------------------------------------
\* propose_dispute_resolution (lib.rs 1954-2007, accounts 2973-2994)
\* resolution: "FullRefund" | "ReleaseToSeller" | "PartialRefund"
\* ------------------------------------------------------------------------
\* variant: propose_dispute_resolution without the comparison with sale_price
\* of lines 1975-1978
ProposeDisputeResolutionResultAnySplit(admin, resolution, buyer_amount, seller_amount) ==
    IF ~tx.exists \/ ~listing.exists \/ ~dispute.exists THEN "AccountNotInitialized"
    ELSE IF admin # config.admin THEN "NotAdmin"
    ELSE IF ~(dispute.status = "Open" \/ dispute.status = "UnderReview")
         THEN "DisputeNotOpen"
    ELSE IF resolution = "PartialRefund" /\ ~(buyer_amount > 0 \/ seller_amount > 0)
         THEN "InvalidRefundAmounts"
    ELSE IF resolution = "PartialRefund"
            /\ CheckedAdd(buyer_amount, seller_amount) = NoInt
         THEN "MathOverflow"
    ELSE "Ok"

ProposeDisputeResolutionResult(admin, resolution, buyer_amount, seller_amount) ==
    IF ~tx.exists \/ ~listing.exists \/ ~dispute.exists THEN "AccountNotInitialized"
    ELSE IF admin # config.admin THEN "NotAdmin"
    ELSE IF ~(dispute.status = "Open" \/ dispute.status = "UnderReview")
         THEN "DisputeNotOpen"
    ELSE IF resolution = "PartialRefund" /\ ~(buyer_amount > 0 \/ seller_amount > 0)
         THEN "InvalidRefundAmounts"
    ELSE IF resolution = "PartialRefund"
            /\ CheckedAdd(buyer_amount, seller_amount) = NoInt
         THEN "MathOverflow"
    ELSE IF resolution = "PartialRefund"
            /\ CheckedAdd(buyer_amount, seller_amount) # tx.sale_price
         THEN "PartialRefundMustEqualSalePrice"
    ELSE "Ok"

ProposeDisputeResolution(admin, resolution, buyer_amount, seller_amount) ==
    /\ ProposeDisputeResolutionResult(admin, resolution, buyer_amount, seller_amount)
         = "Ok"
    /\ dispute' =
          [dispute EXCEPT
             !.pending_buyer_amount =
                 IF resolution = "PartialRefund" THEN buyer_amount ELSE NoInt,
             !.pending_seller_amount =
                 IF resolution = "PartialRefund" THEN seller_amount ELSE NoInt,
             !.pending_resolution = resolution,
             !.pending_resolution_at = now,
             !.contested = FALSE,
             !.status = "UnderReview"]
    /\ last' = Did("propose_dispute_resolution", admin, 0, <<>>)
    /\ UNCHANGED <<now, config, listing, escrow, pw, offers, tx, wallet>>

\* ------------------------------------------------------------------------
\* contest_dispute_resolution (lib.rs 2009-2051, accounts 2996-3018)
\* ------------------------------------------------------------------------
ContestDisputeResolutionResult(caller) ==
    IF ~tx.exists \/ ~listing.exists \/ ~dispute.exists THEN "AccountNotInitialized"
    ELSE IF ~(caller = tx.buyer \/ caller = tx.seller) THEN "NotPartyToTransaction"
    ELSE IF dispute.pending_resolution = "none" THEN "NoPendingChange"
    ELSE IF ~(now < dispute.pending_resolution_at + DISPUTE_RESOLUTION_TIMELOCK_SECONDS)
         THEN "TimelockNotExpired"
    ELSE IF dispute.contested THEN "AlreadyContested"
    ELSE "Ok"

ContestDisputeResolution(caller) ==
    /\ ContestDisputeResolutionResult(caller) = "Ok"
    /\ dispute' = [dispute EXCEPT !.contested = TRUE]
    /\ last' = Did("contest_dispute_resolution", caller, 0, <<>>)
    /\ UNCHANGED <<now, config, listing, escrow, pw, offers, tx, wallet>>

\* ------------------------------------------------------------------------
\* execute_dispute_resolution (lib.rs 2053-2291, accounts 3020-3076)
\* ------------------------------------------------------------------------
\* what the pending resolution pays: <<to buyer, to seller, to treasury>>
\* variant: ReleaseToSeller hands the whole sale price to the seller
ResolutionPayoutWithoutFee ==
    IF dispute.pending_resolution = "FullRefund" THEN <<tx.sale_price, 0, 0>>
    ELSE IF dispute.pending_resolution = "ReleaseToSeller"
         THEN <<0, tx.sale_price, 0>>
    ELSE <<dispute.pending_buyer_amount, dispute.pending_seller_amount, 0>>

ResolutionPayout ==
    IF dispute.pending_resolution = "FullRefund" THEN <<tx.sale_price, 0, 0>>
    ELSE IF dispute.pending_resolution = "ReleaseToSeller"
         THEN <<0, tx.seller_proceeds, tx.platform_fee>>
    ELSE <<dispute.pending_buyer_amount, dispute.pending_seller_amount, 0>>

ResolutionTotal == ResolutionPayout[1] + ResolutionPayout[2] + ResolutionPayout[3]

\* variant: execute_dispute_resolution without the contested requirement of
\* lines 2070-2074
ExecuteDisputeResolutionResultIgnoringContest(caller, buyer, seller, treasury) ==
    IF ~tx.exists \/ ~listing.exists \/ ~escrow.exists \/ ~dispute.exists
    THEN "AccountNotInitialized"
    ELSE IF buyer # tx.buyer THEN "InvalidBuyer"
    ELSE IF seller # tx.seller THEN "InvalidSeller"
    ELSE IF treasury # config.treasury THEN "InvalidTreasury"
    ELSE IF caller # config.admin THEN "Unauthorized"
    ELSE IF dispute.pending_resolution = "none" THEN "NoPendingChange"
    ELSE IF ~(now >= dispute.pending_resolution_at + DISPUTE_RESOLUTION_TIMELOCK_SECONDS)
         THEN "DisputeTimelockNotExpired"
    ELSE IF escrow.amount # tx.sale_price THEN "PendingWithdrawalsExist"
    ELSE IF ResolutionTotal > U64_MAX THEN "MathOverflow"
    ELSE IF ~(escrow.lamports >= ResolutionTotal + RentExempt)
         THEN "InsufficientEscrowBalance"
    ELSE IF CheckedSub(escrow.amount, ResolutionTotal) = NoInt THEN "MathOverflow"
    ELSE "Ok"

ExecuteDisputeResolutionResult(caller, buyer, seller, treasury) ==
    IF ~tx.exists \/ ~listing.exists \/ ~escrow.exists \/ ~dispute.exists
    THEN "AccountNotInitialized"
    ELSE IF buyer # tx.buyer THEN "InvalidBuyer"
    ELSE IF seller # tx.seller THEN "InvalidSeller"
    ELSE IF treasury # config.treasury THEN "InvalidTreasury"
    ELSE IF caller # config.admin THEN "Unauthorized"
    ELSE IF dispute.pending_resolution = "none" THEN "NoPendingChange"
    ELSE IF dispute.contested THEN "AlreadyContested"
    ELSE IF ~(now >= dispute.pending_resolution_at + DISPUTE_RESOLUTION_TIMELOCK_SECONDS)
         THEN "DisputeTimelockNotExpired"
    ELSE IF escrow.amount # tx.sale_price THEN "PendingWithdrawalsExist"
    ELSE IF ResolutionTotal > U64_MAX THEN "MathOverflow"
    ELSE IF ~(escrow.lamports >= ResolutionTotal + RentExempt)
         THEN "InsufficientEscrowBalance"
    ELSE IF CheckedSub(escrow.amount, ResolutionTotal) = NoInt THEN "MathOverflow"
    ELSE "Ok"

ExecuteDisputeResolution(caller, buyer, seller, treasury) ==
    /\ ExecuteDisputeResolutionResult(caller, buyer, seller, treasury) = "Ok"
    /\ escrow' = CloseEscrow(EscrowPayout(EscrowPayout(EscrowPayout(escrow,
                                ResolutionPayout[1]), ResolutionPayout[2]),
                                ResolutionPayout[3]))
    /\ tx' = [tx EXCEPT !.status =
                 IF dispute.pending_resolution = "FullRefund"
                 THEN "Refunded" ELSE "Completed"]
    /\ dispute' = [dispute EXCEPT
                     !.exists = FALSE, !.lamports = 0,
                     !.status = "Resolved",
                     !.resolution = dispute.pending_resolution,
                     !.resolved_at = now,
                     !.pending_resolution = "none",
                     !.pending_resolution_at = NoInt]
    \* escrow payouts, the dispute fee (to the buyer on FullRefund, else to the
    \* treasury), the Escrow's remainder to the seller, the Dispute's to the caller
    /\ wallet' =
          Credit(Credit(Credit(Credit(Credit(Credit(wallet,
                 buyer, ResolutionPayout[1]),
                 seller, ResolutionPayout[2]),
                 treasury, ResolutionPayout[3]),
                 IF dispute.pending_resolution = "FullRefund" THEN buyer ELSE treasury,
                 dispute.dispute_fee),
                 seller, escrow.lamports - ResolutionTotal),
                 caller, dispute.lamports - dispute.dispute_fee)
    /\ last' = [Did("execute_dispute_resolution", caller, ResolutionTotal,
                    <<Transfer("escrow", buyer, ResolutionPayout[1]),
                      Transfer("escrow", seller, ResolutionPayout[2]),
                      Transfer("escrow", treasury, ResolutionPayout[3]),
                      Transfer("dispute",
                               IF dispute.pending_resolution = "FullRefund"
                               THEN buyer ELSE treasury,
                               dispute.dispute_fee)>>)
                   EXCEPT !.old_pending_at = dispute.pending_resolution_at]
    /\ UNCHANGED <<now, config, listing, pw, offers>>

\* ------------------------------------------------------------------------
\* emergency_refund (lib.rs 2293-2377, accounts 3078-3103)
\* ------------------------------------------------------------------------
\* variant: emergency_refund without the return of lines 2312-2314
EmergencyRefundResultDespiteConfirmation(buyer) ==
    IF ~listing.exists \/ ~escrow.exists \/ ~tx.exists THEN "AccountNotInitialized"
    ELSE IF tx.status # "InEscrow" THEN "InvalidTransactionStatus"
    ELSE IF buyer # tx.buyer THEN "NotBuyer"
    ELSE IF ~(now > tx.transfer_deadline) THEN "DeadlineNotPassed"
    ELSE IF ~(escrow.lamports >= tx.sale_price + RentExempt)
         THEN "InsufficientEscrowBalance"
    ELSE IF CheckedAdd(escrow.amount, RentExempt) = NoInt THEN "MathOverflow"
    ELSE IF ~(escrow.lamports >= escrow.amount + RentExempt)
         THEN "EscrowBalanceMismatch"
    ELSE IF escrow.amount # tx.sale_price THEN "PendingWithdrawalsExist"
    ELSE "Ok"

EmergencyRefundResult(buyer) ==
    IF ~listing.exists \/ ~escrow.exists \/ ~tx.exists THEN "AccountNotInitialized"
    ELSE IF tx.status # "InEscrow" THEN "InvalidTransactionStatus"
    ELSE IF buyer # tx.buyer THEN "NotBuyer"
    ELSE IF ~(now > tx.transfer_deadline) THEN "DeadlineNotPassed"
    ELSE IF tx.seller_confirmed_transfer THEN "MustOpenDispute"
    ELSE IF ~(escrow.lamports >= tx.sale_price + RentExempt)
         THEN "InsufficientEscrowBalance"
    ELSE IF CheckedAdd(escrow.amount, RentExempt) = NoInt THEN "MathOverflow"
    ELSE IF ~(escrow.lamports >= escrow.amount + RentExempt)
         THEN "EscrowBalanceMismatch"
    ELSE IF escrow.amount # tx.sale_price THEN "PendingWithdrawalsExist"
    ELSE "Ok"

EmergencyRefund(buyer) ==
    /\ EmergencyRefundResult(buyer) = "Ok"
    /\ escrow' = CloseEscrow(EscrowPayout(escrow, tx.sale_price))
    \* close = buyer on the Escrow and on the Transaction
    /\ tx' = [tx EXCEPT !.exists = FALSE, !.status = "Refunded",
                        !.completed_at = now]
    /\ wallet' = Credit(wallet, buyer, escrow.lamports + RentExempt)
    /\ last' = Did("emergency_refund", buyer, tx.sale_price,
                   <<Transfer("escrow", buyer, tx.sale_price)>>)
    /\ UNCHANGED <<now, config, listing, pw, offers, dispute>>

\* ------------------------------------------------------------------------
\* Treasury and admin timelocks, pause (lib.rs 139-266, accounts 2425-2451,
\* 3123-3129)
\* ------------------------------------------------------------------------
ProposeTreasuryChangeResult(admin) ==
    IF admin # config.admin THEN "NotAdmin" ELSE "Ok"

ProposeTreasuryChange(admin, new_treasury) ==
    /\ ProposeTreasuryChangeResult(admin) = "Ok"
    /\ config' = [config EXCEPT !.pending_treasury = new_treasury,
                                !.pending_treasury_at = now]
    /\ last' = Did("propose_treasury_change", admin, 0, <<>>)
    /\ UNCHANGED <<now, listing, escrow, pw, offers, tx, dispute, wallet>>

\* variant: execute_treasury_change without the timelock requirement
ExecuteTreasuryChangeResultAtOnce(admin) ==
    IF admin # config.admin THEN "NotAdmin"
    ELSE IF config.pending_treasury = NoKey THEN "NoPendingChange"
    ELSE "Ok"

ExecuteTreasuryChangeResult(admin) ==
    IF admin # config.admin THEN "NotAdmin"
    ELSE IF config.pending_treasury = NoKey THEN "NoPendingChange"
    ELSE IF ~(now >= config.pending_treasury_at + ADMIN_TIMELOCK_SECONDS)
         THEN "TimelockNotExpired"
    ELSE "Ok"

ExecuteTreasuryChange(admin) ==
    /\ ExecuteTreasuryChangeResult(admin) = "Ok"
    /\ config' = [config EXCEPT !.treasury = config.pending_treasury,
                                !.pending_treasury = NoKey,
                                !.pending_treasury_at = NoInt]
    /\ last' = [Did("execute_treasury_change", admin, 0, <<>>)
                   EXCEPT !.old_pending_at = config.pending_treasury_at]
    /\ UNCHANGED <<now, listing, escrow, pw, offers, tx, dispute, wallet>>

ProposeAdminChangeResult(admin) ==
    IF admin # config.admin THEN "NotAdmin" ELSE "Ok"

ProposeAdminChange(admin, new_admin) ==
    /\ ProposeAdminChangeResult(admin) = "Ok"
    /\ config' = [config EXCEPT !.pending_admin = new_admin,
                                !.pending_admin_at = now]
    /\ last' = Did("propose_admin_change", admin, 0, <<>>)
    /\ UNCHANGED <<now, listing, escrow, pw, offers, tx, dispute, wallet>>

ExecuteAdminChangeResult(admin) ==
    IF admin # config.admin THEN "NotAdmin"
    ELSE IF config.pending_admin = NoKey THEN "NoPendingChange"
    ELSE IF ~(now >= config.pending_admin_at + ADMIN_TIMELOCK_SECONDS)
         THEN "TimelockNotExpired"
    ELSE "Ok"

ExecuteAdminChange(admin) ==
    /\ ExecuteAdminChangeResult(admin) = "Ok"
    /\ config' = [config EXCEPT !.admin = config.pending_admin,
                                !.pending_admin = NoKey,
                                !.pending_admin_at = NoInt]
    /\ last' = [Did("execute_admin_change", admin, 0, <<>>)
                   EXCEPT !.old_pending_at = config.pending_admin_at]
    /\ UNCHANGED <<now, listing, escrow, pw, offers, tx, dispute, wallet>>

SetPausedResult(admin) ==
    IF admin # config.admin THEN "NotAdmin" ELSE "Ok"

SetPaused(admin, paused) ==
    /\ SetPausedResult(admin) = "Ok"
    /\ config' = [config EXCEPT !.paused = paused]
    /\ last' = Did("set_paused", admin, 0, <<>>)
    /\ UNCHANGED <<now, listing, escrow, pw, offers, tx, dispute, wallet>>

\* ------------------------------------------------------------------------
\* The program: every instruction, called by any signer with any input of
\* the sets below
\* ------------------------------------------------------------------------
ListingInput(listing_type, starting_price, reserve_price, buy_now_price, duration_seconds, payment_mint) ==
    [listing_type |-> listing_type, starting_price |-> starting_price,
     reserve_price |-> reserve_price, buy_now_price |-> buy_now_price,
     duration_seconds |-> duration_seconds, payment_mint |-> payment_mint]

ListingInputs ==
    {ListingInput("Auction", 20, NoInt, 40, 1200, OTHER_MINT),
     ListingInput("BuyNow", 40, NoInt, 40, 1200, APP_TOKEN_MINT)}

BidAmounts == {20, 24}

OfferMakers == {BUYER1}

OfferAmounts == {30}

OfferDeadlines == {900}

Resolutions == {"FullRefund", "ReleaseToSeller", "PartialRefund"}

PartialBuyerAmounts == {10}

\* clock steps of the market: past every deadline and timelock at once
Deltas == {BACKEND_TIMEOUT_SECONDS}

Callers == {SELLER, BUYER1, BUYER2, EXPECTED_ADMIN, BACKEND}

Calls ==
    \/ \E d \in Deltas : Tick(d, MaxNow)
    \/ \E li \in ListingInputs :
          CreateListing(SELLER, li.listing_type, li.starting_price, li.reserve_price,
                        li.buy_now_price, li.duration_seconds, li.payment_mint)
    \/ \E b \in Callers, a \in BidAmounts, id \in WithdrawalIds : PlaceBid(b, a, id)
    \/ \E u \in Callers, id \in WithdrawalIds : WithdrawFunds(u, id)
    \/ \E b \in Callers, id \in WithdrawalIds : BuyNow(b, id)
    \/ \E p \in Callers, b \in Buyers : SettleAuction(p, b)
    \/ \E c \in Callers : CancelAuction(c)
    \/ \E c \in Callers : ExpireListing(c, SELLER)
    \/ \E c \in Callers : CancelListing(c)
    \/ \E b \in OfferMakers, a \in OfferAmounts, dl \in OfferDeadlines,
          sd \in OfferSeeds :
          MakeOffer(b, a, dl, sd)
    \/ \E c \in Callers, k \in OfferKeys : CancelOffer(c, k)
    \/ \E c \in Callers, k \in OfferKeys, b \in Buyers : ExpireOffer(c, k, b)
    \/ \E c \in Callers, k \in OfferKeys, b \in Buyers, id \in WithdrawalIds :
          AcceptOffer(c, k, b, id)
    \/ \E c \in Callers : SellerConfirmTransfer(c)
    \/ \E c \in Callers : VerifyUploads(c, "hash")
    \/ \E c \in Callers : EmergencyAutoVerify(c)
    \/ \E c \in Callers : AdminEmergencyVerify(c)
    \/ \E c \in Callers, sg \in BOOLEAN, t \in TreasuryKeys :
          FinalizeTransaction(c, sg, t)
    \/ \E c \in Callers, t \in TreasuryKeys : ConfirmReceipt(c, SELLER, t)
    \/ \E c \in Callers, t \in TreasuryKeys : OpenDispute(c, t)
    \/ \E c \in Callers, r \in Resolutions, ba \in PartialBuyerAmounts :
          ProposeDisputeResolution(c, r, ba, tx.sale_price - ba)
    \/ \E c \in Callers : ContestDisputeResolution(c)
    \/ \E c \in Callers, b \in Buyers, t \in TreasuryKeys :
          ExecuteDisputeResolution(c, b, SELLER, t)
    \/ \E c \in Callers : EmergencyRefund(c)

Governance ==
    \/ \E c \in Signers : ProposeTreasuryChange(c, TREASURY2)
    \/ \E c \in Signers : ExecuteTreasuryChange(c)
    \/ \E c \in Signers : ProposeAdminChange(c, ADMIN2)
    \/ \E c \in Signers : ExecuteAdminChange(c)
    \/ \E c \in Signers, p \in BOOLEAN : SetPaused(c, p)

Next == Calls \/ Governance

\* the whole program
Spec == Init /\ [][Next]_vars

\* the market without the governance instructions, which write no account
\* but the Config's admin, treasury, paused and pending_* fields
SpecMarket == Init /\ [][Calls]_vars

\* ------------------------------------------------------------------------
\* The bidding phase, amounts in detail: bids on both sides of the starting
\* price and of either increment rule, and up to where the increment
\* computation overflows the word
\* ------------------------------------------------------------------------
BiddingInputs == {ListingInput("Auction", 20, 20, NoInt, 1800, NoKey)}

BiddingAmounts == {19, 20, 21, 22, 60, 62, 63, 140, 150}

BiddingDeltas == {1800}

NextBidding ==
    \/ \E d \in BiddingDeltas : Tick(d, BiddingHorizon)
    \/ \E li \in BiddingInputs :
          CreateListing(SELLER, li.listing_type, li.starting_price, li.reserve_price,
                        li.buy_now_price, li.duration_seconds, li.payment_mint)
    \/ \E b \in Callers, a \in BiddingAmounts, id \in WithdrawalIds :
          PlaceBid(b, a, id)
    \/ \E u \in Callers, id \in WithdrawalIds : WithdrawFunds(u, id)

SpecBidding == Init /\ [][NextBidding]_vars

\* ------------------------------------------------------------------------
\* The bidding phase, the clock in detail: auctions shorter and longer than
\* the anti-snipe window, bids inside and outside of it
\* ------------------------------------------------------------------------
TimerInputs ==
    {ListingInput("Auction", 20, NoInt, NoInt, 600, OTHER_MINT),
     ListingInput("Auction", 20, 20, NoInt, 1800, NoKey)}

TimerAmounts == {20, 24, 30}

TimerDeltas == {300, 600}

NextTimer ==
    \/ \E d \in TimerDeltas : Tick(d, TimerHorizon)
    \/ \E li \in TimerInputs :
          CreateListing(SELLER, li.listing_type, li.starting_price, li.reserve_price,
                        li.buy_now_price, li.duration_seconds, li.payment_mint)
    \/ \E b \in Callers, a \in TimerAmounts, id \in WithdrawalIds :
          PlaceBid(b, a, id)

SpecTimer == Init /\ [][NextTimer]_vars

\* ------------------------------------------------------------------------
\* Escrow accounting
\* ------------------------------------------------------------------------
PendingIds == {i \in WithdrawalIds : pw[i].state = "pending"}

RECURSIVE PendingSum(_)
PendingSum(ids) ==
    IF ids = {} THEN 0
    ELSE LET i == CHOOSE j \in ids : TRUE
         IN  pw[i].amount + PendingSum(ids \ {i})

\* the sum of the unclaimed PendingWithdrawal tickets of the listing
PendingTotal == PendingSum(PendingIds)

RECURSIVE FlowInto(_, _)
FlowInto(account, transfers) ==
    IF transfers = <<>> THEN 0
    ELSE (IF Head(transfers).to = account THEN Head(transfers).amount ELSE 0)
         + FlowInto(account, Tail(transfers))

RECURSIVE FlowOutOf(_, _)
FlowOutOf(account, transfers) ==
    IF transfers = <<>> THEN 0
    ELSE (IF Head(transfers).from = account THEN Head(transfers).amount ELSE 0)
         + FlowOutOf(account, Tail(transfers))

\* C1: whenever a Transaction is InEscrow and no PendingWithdrawal of its
\* listing is outstanding, escrow.amount equals platform_fee + seller_proceeds
\* of the Transaction, whichever of buy_now, settle_auction and accept_offer
\* created it (the offer of the standing high bidder included).
C1_EscrowEqualsFeePlusProceeds ==
    (tx.exists /\ tx.status = "InEscrow" /\ PendingIds = {})
        => escrow.amount = tx.platform_fee + tx.seller_proceeds

\* C2: the lamports held by the Escrow above its rent-exempt minimum cover
\* escrow.amount, and every instruction changes escrow.amount and the Escrow's
\* lamports by exactly what its transfers moved into and out of the Escrow.
C2_CustodyCoversBookkeeping ==
    /\ escrow.exists => escrow.lamports - RentExempt >= escrow.amount
    /\ last.op \notin {"initialize", "tick", "create_listing"} =>
          /\ escrow.amount - last.old_escrow_amount
                = FlowInto("escrow", last.transfers) - FlowOutOf("escrow", last.transfers)
          /\ escrow.exists =>
                escrow.lamports - last.old_escrow_lamports
                   = escrow.amount - last.old_escrow_amount

\* an outbid refund has left the Escrow while other funds stay in custody
C2_Witness ==
    /\ escrow.exists
    /\ last.op = "withdraw_funds"
    /\ escrow.amount > 0
    /\ FlowOutOf("escrow", last.transfers) > 0
    /\ escrow.lamports - RentExempt >= escrow.amount

\* C3: while the Listing is Active, escrow.amount is the current bid plus the
\* sum of the unclaimed PendingWithdrawal tickets, after every place_bid and
\* withdraw_funds, also when a bidder outbids themselves.
C3_ActiveEscrowIsBidPlusPending ==
    (listing.exists /\ listing.status = "Active" /\ escrow.exists)
        => escrow.amount = listing.current_bid + PendingTotal

\* a bidder has outbid themselves, their own ticket is still unclaimed, and an
\* earlier ticket has been withdrawn
C3_Witness ==
    /\ listing.status = "Active"
    /\ last.op = "place_bid"
    /\ last.old_bidder = last.caller
    /\ \E i \in PendingIds : pw[i].user = listing.current_bidder
    /\ \E i \in WithdrawalIds : pw[i].state = "claimed"
    /\ escrow.amount = listing.current_bid + PendingTotal

\* ------------------------------------------------------------------------
\* Payouts, tickets, one sale per listing
\* ------------------------------------------------------------------------
PayoutOps ==
    {"finalize_transaction", "confirm_receipt", "emergency_refund",
     "execute_dispute_resolution"}

CloseOps == {"cancel_auction", "cancel_listing", "expire_listing"}

\* no input makes one of the four payout instructions succeed
NoPayoutSucceeds ==
    /\ \A s \in Signers, sg \in BOOLEAN, t \in TreasuryKeys :
          FinalizeTransactionResult(s, sg, t) # "Ok"
    /\ \A b \in Signers, s \in Signers, t \in TreasuryKeys :
          ConfirmReceiptResult(b, s, t) # "Ok"
    /\ \A b \in Signers : EmergencyRefundResult(b) # "Ok"
    /\ \A c \in Signers, b \in Signers, s \in Signers, t \in TreasuryKeys :
          ExecuteDisputeResolutionResult(c, b, s, t) # "Ok"

\* C4: the Escrow is never paid out or closed while a PendingWithdrawal is
\* outstanding: the four payout instructions fail whenever escrow.amount
\* exceeds the sale amount, the three cancel/expire instructions succeed only
\* on a listing without a bidder, and a closed Escrow tracked 0 with no
\* unclaimed ticket left.
C4_NoPayoutOrCloseWhilePending ==
    /\ (tx.exists /\ escrow.exists
          /\ (escrow.amount > tx.sale_price \/ PendingIds # {}))
         => NoPayoutSucceeds
    /\ last.op \in PayoutOps =>
          (PendingIds = {} /\ last.old_escrow_amount = tx.sale_price)
    /\ last.op \in CloseOps =>
          (last.old_bidder = NoKey /\ last.old_escrow_amount = 0 /\ PendingIds = {})
    /\ (listing.exists /\ ~escrow.exists) => (escrow.amount = 0 /\ PendingIds = {})

\* a sale is ready to be released but an outbid bidder has not withdrawn
C4_Witness ==
    /\ tx.exists /\ escrow.exists /\ PendingIds # {}
    /\ escrow.amount > tx.sale_price
    /\ FinalizeTransactionResult(tx.seller, TRUE, config.treasury)
          = "PendingWithdrawalsExist"
    /\ ConfirmReceiptResult(tx.buyer, tx.seller, config.treasury)
          = "PendingWithdrawalsExist"

\* every ticket is paid at most once, in full, to its owner, and is gone after
TicketsPaidOnceToOwner ==
    /\ \A i \in WithdrawalIds :
          /\ pw[i].claims <= 1
          /\ pw[i].state = "pending" =>
                /\ pw[i].claims = 0 /\ pw[i].paid = 0
                /\ \A u \in Signers \ {pw[i].user} : WithdrawFundsResult(u, i) # "Ok"
          /\ pw[i].state = "claimed" =>
                /\ pw[i].claims = 1
                /\ pw[i].paid = pw[i].amount
                /\ pw[i].paid_to = pw[i].user
                /\ \A u \in Signers : WithdrawFundsResult(u, i) # "Ok"
    /\ last.op = "withdraw_funds" =>
          /\ pw[last.id].state = "claimed"
          /\ last.caller = pw[last.id].user
          /\ last.transfers = <<Transfer("escrow", pw[last.id].user, pw[last.id].amount)>>
          /\ escrow.amount = last.old_escrow_amount - pw[last.id].amount

\* an instruction that replaces a standing bid leaves the displaced bidder a
\* ticket for exactly that bid
DisplacedBidderHoldsTicket ==
    (last.op \in {"place_bid", "buy_now", "accept_offer"}
        /\ last.old_bidder # NoKey /\ last.old_bid > 0)
      => /\ listing.withdrawal_count \in WithdrawalIds
         /\ pw[listing.withdrawal_count].state = "pending"
         /\ pw[listing.withdrawal_count].user = last.old_bidder
         /\ pw[listing.withdrawal_count].amount = last.old_bid

\* C5: each PendingWithdrawal is paid at most once and only to its owner, for
\* exactly its amount, with escrow.amount decreased by the same and the ticket
\* destroyed; a displaced bidder therefore receives neither more nor less than
\* the displaced bid.
C5_WithdrawalPaidOnceAndInFull ==
    TicketsPaidOnceToOwner /\ DisplacedBidderHoldsTicket

\* C6: at most one Transaction is ever created per Listing and at most one
\* Dispute per Transaction: the three sale instructions need an Active listing
\* and leave it Sold, and open_dispute cannot succeed again after the
\* Transaction or the Dispute account has been closed.
C6_OneTransactionOneDispute ==
    /\ tx.created <= 1
    /\ dispute.created <= 1
    /\ last.op \in {"buy_now", "settle_auction", "accept_offer"} =>
          (listing.status = "Sold" /\ tx.created = 1 /\ tx.via = last.op)
    /\ tx.created = 1 => listing.status = "Sold"
    /\ dispute.created = 1 =>
          \A c \in Signers, t \in TreasuryKeys : OpenDisputeResult(c, t) # "Ok"

\* the Dispute account was closed by execute_dispute_resolution and the
\* parties still hold funds to open another one
C6_Witness ==
    /\ tx.created = 1 /\ tx.exists
    /\ dispute.created = 1 /\ ~dispute.exists
    /\ last.op = "execute_dispute_resolution"
    /\ wallet[tx.buyer] > RentExempt + dispute.dispute_fee

\* ------------------------------------------------------------------------
\* Fees, bids, timers
\* ------------------------------------------------------------------------
\* C7 as stated: for every payment_mint the two fee rates stored on the Listing
\* are the rates Config held when create_listing ran, and stay so.
C7_ListingFeesEqualConfig ==
    listing.exists =>
        /\ listing.platform_fee_bps = config.platform_fee_bps
        /\ listing.dispute_fee_bps = config.dispute_fee_bps

\* C7: the Listing's dispute_fee_bps is the rate Config held at creation; its
\* platform_fee_bps is APP_FEE_BPS when payment_mint is the APP token mint and
\* the rate Config held at creation otherwise; no instruction changes either
\* captured value, nor the two rates of Config.
C7_ListingFeesCaptured ==
    /\ config.platform_fee_bps = PlatformFee
    /\ config.dispute_fee_bps = DisputeFee
    /\ listing.exists =>
          /\ listing.dispute_fee_bps = config.dispute_fee_bps
          /\ listing.platform_fee_bps =
                IF listing.payment_mint = APP_TOKEN_MINT THEN APP_FEE_BPS
                ELSE config.platform_fee_bps

\* an APP-token listing has been sold and released with its captured rate
C7_Witness ==
    /\ listing.exists
    /\ listing.payment_mint = APP_TOKEN_MINT
    /\ listing.platform_fee_bps = APP_FEE_BPS
    /\ listing.platform_fee_bps # config.platform_fee_bps
    /\ tx.status = "Completed"

\* C8: an accepted bid over a standing bid old > 0 is at least
\* old + max(floor(old * 500 / 10000), MIN_BID_INCREMENT_LAMPORTS), a first bid
\* is at least starting_price, current_bid strictly increases with every
\* accepted bid, and when the increment computation overflows u64 no bid is
\* accepted.
C8_BidMonotonicity ==
    /\ last.op = "place_bid" =>
          /\ listing.current_bid = last.amount
          /\ IF last.old_bid > 0
             THEN listing.current_bid >=
                     last.old_bid
                       + Max((last.old_bid * 500) \div 10000, MIN_BID_INCREMENT_LAMPORTS)
             ELSE listing.current_bid >= listing.starting_price
          /\ listing.current_bid >= last.old_bid + 1
    /\ (listing.exists /\ listing.current_bid > 0
          /\ (listing.current_bid * 500 > U64_MAX
                \/ listing.current_bid
                     + Max((listing.current_bid * 500) \div 10000,
                           MIN_BID_INCREMENT_LAMPORTS) > U64_MAX))
         => \A b \in Signers, a \in listing.current_bid..BuyerFunds :
                PlaceBidResult(b, a, listing.withdrawal_count + 1) # "Ok"

\* a bid has been accepted over a standing bid, and the bid now standing is so
\* large that the next increment overflows: the higher bid is rejected
C8_Witness ==
    /\ last.op = "place_bid"
    /\ last.old_bid > 0
    /\ listing.current_bid * 500 > U64_MAX
    /\ \E b \in Buyers : \E a \in (listing.current_bid + 1)..BuyerFunds :
          PlaceBidResult(b, a, listing.withdrawal_count + 1) = "MathOverflow"

\* C9: a bid accepted later than 900 s before the end_time it found leaves
\* end_time at least 900 s ahead; a bid accepted on a started auction outside
\* that window leaves end_time unchanged; no accepted bid moves end_time
\* earlier.
C9_AntiSnipe ==
    last.op = "place_bid" =>
        /\ now > last.old_end_time - 900 => listing.end_time - now >= 900
        /\ (last.old_started /\ ~(now > last.old_end_time - 900))
              => listing.end_time = last.old_end_time
        /\ listing.end_time >= last.old_end_time

\* a bid inside the window of a started auction has pushed end_time out
C9_Witness ==
    /\ last.op = "place_bid"
    /\ last.old_started
    /\ now > last.old_end_time - 900
    /\ now < last.old_end_time
    /\ listing.end_time = now + 900
    /\ listing.end_time > last.old_end_time

\* the timer of the auction is running only because a bid was accepted
TimerWaitsForBid ==
    (listing.exists /\ ~listing.auction_started) =>
        /\ listing.current_bidder = NoKey
        /\ listing.current_bid = 0
        /\ listing.auction_start_time = NoInt
        /\ listing.end_time - listing.created_at > 0
        /\ listing.end_time - listing.created_at <= MAX_AUCTION_DURATION_SECONDS

\* C10 as stated: the first accepted bid starts the auction at now and leaves
\* end_time = now + duration_seconds, for every configured duration.
C10_TimerStartsWithFullDuration ==
    /\ TimerWaitsForBid
    /\ (last.op = "place_bid" /\ ~last.old_started) =>
          /\ listing.auction_started
          /\ listing.auction_start_time = now
          /\ listing.end_time = now + (last.old_end_time - listing.created_at)

\* C10: auction_started stays false until the first bid is accepted (a bid
\* below the reserve is not); that bid sets auction_started and
\* auction_start_time = now, and leaves end_time = now + duration_seconds when
\* the duration is at least 900 s and end_time = now + 900 when it is shorter.
C10_TimerStartsAtFirstBid ==
    /\ TimerWaitsForBid
    /\ (last.op = "place_bid" /\ ~last.old_started) =>
          /\ listing.auction_started
          /\ listing.auction_start_time = now
          /\ ReserveMet(last.amount)
          /\ listing.end_time =
                now + Max(last.old_end_time - listing.created_at, ANTI_SNIPE_EXTENSION)

\* the first bid on a listing shorter than the anti-snipe window, placed after
\* the listing was created
C10_Witness ==
    /\ last.op = "place_bid"
    /\ ~last.old_started
    /\ now > listing.created_at
    /\ last.old_end_time - listing.created_at < ANTI_SNIPE_WINDOW
    /\ listing.end_time = now + ANTI_SNIPE_EXTENSION

\* ------------------------------------------------------------------------
\* The timelocks, the clock in days: the treasury and admin rotations next
\* to one sale that is disputed and resolved
\* ------------------------------------------------------------------------
\* how far the timelock specification follows the clock
TimelockHorizon == 432000

TimelockInputs == {ListingInput("BuyNow", 40, NoInt, 40, 2592000, NoKey)}

TimelockDeltas == {86400}

TimelockResolutions == {"FullRefund"}

NextTimelock ==
    \/ \E d \in TimelockDeltas : Tick(d, TimelockHorizon)
    \/ \E c \in Signers : ProposeTreasuryChange(c, TREASURY2)
    \/ \E c \in Signers : ExecuteTreasuryChange(c)
    \/ \E c \in Signers : ProposeAdminChange(c, ADMIN2)
    \/ \E c \in Signers : ExecuteAdminChange(c)
    \/ \E li \in TimelockInputs :
          CreateListing(SELLER, li.listing_type, li.starting_price, li.reserve_price,
                        li.buy_now_price, li.duration_seconds, li.payment_mint)
    \/ \E id \in WithdrawalIds : BuyNow(BUYER1, id)
    \/ \E c \in Signers, t \in TreasuryKeys : OpenDispute(c, t)
    \/ \E c \in Signers, r \in TimelockResolutions :
          ProposeDisputeResolution(c, r, 0, 0)
    \/ \E c \in Signers, t \in TreasuryKeys :
          ExecuteDisputeResolution(c, BUYER1, SELLER, t)

SpecTimelock == Init /\ [][NextTimelock]_vars

\* C11: execute_treasury_change, execute_admin_change and
\* execute_dispute_resolution never succeed earlier than 48 hours after the
\* most recent corresponding proposal; a re-proposal restarts the delay; an
\* execute without a pending proposal fails with NoPendingChange.
C11_Timelock ==
    /\ last.op \in {"execute_treasury_change", "execute_admin_change",
                    "execute_dispute_resolution"}
          => (last.old_pending_at # NoInt /\ now >= last.old_pending_at + 48 * 3600)
    /\ last.op = "propose_treasury_change" => config.pending_treasury_at = now
    /\ last.op = "propose_admin_change" => config.pending_admin_at = now
    /\ last.op = "propose_dispute_resolution" => dispute.pending_resolution_at = now
    /\ \A c \in Signers :
          /\ (config.pending_treasury # NoKey
                /\ now < config.pending_treasury_at + 48 * 3600)
               => ExecuteTreasuryChangeResult(c) # "Ok"
          /\ (config.pending_admin # NoKey
                /\ now < config.pending_admin_at + 48 * 3600)
               => ExecuteAdminChangeResult(c) # "Ok"
          /\ (dispute.exists /\ dispute.pending_resolution # "none"
                /\ now < dispute.pending_resolution_at + 48 * 3600)
               => \A b \in Signers, sl \in Signers, t \in TreasuryKeys :
                     ExecuteDisputeResolutionResult(c, b, sl, t) # "Ok"
    /\ config.pending_treasury = NoKey
          => ExecuteTreasuryChangeResult(config.admin) = "NoPendingChange"
    /\ config.pending_admin = NoKey
          => ExecuteAdminChangeResult(config.admin) = "NoPendingChange"
    /\ (tx.exists /\ escrow.exists /\ dispute.exists
          /\ dispute.pending_resolution = "none")
          => ExecuteDisputeResolutionResult(config.admin, tx.buyer, tx.seller,
                                            config.treasury) = "NoPendingChange"

\* a treasury change proposed again after a first proposal has been executed
\* exactly 48 hours after the later proposal
C11_Witness ==
    /\ last.op = "execute_treasury_change"
    /\ last.old_pending_at > 0
    /\ now = last.old_pending_at + ADMIN_TIMELOCK_SECONDS
    /\ config.treasury = TREASURY2
    /\ config.pending_treasury = NoKey

\* ------------------------------------------------------------------------
\* One disputed sale and its resolution, the clock in days: every
\* resolution, split amounts on both sides of the sale price, contests
\* ------------------------------------------------------------------------
\* how far the resolution specification follows the clock
ResolutionHorizon == 345600

ResolutionInputs == {ListingInput("BuyNow", 40, NoInt, 40, 2592000, NoKey)}

ResolutionDeltas == {86400}

SplitAmounts == {0, 10, 30, 40}

NextResolution ==
    \/ \E d \in ResolutionDeltas : Tick(d, ResolutionHorizon)
    \/ \E li \in ResolutionInputs :
          CreateListing(SELLER, li.listing_type, li.starting_price, li.reserve_price,
                        li.buy_now_price, li.duration_seconds, li.payment_mint)
    \/ \E id \in WithdrawalIds : BuyNow(BUYER1, id)
    \/ \E c \in Callers, t \in TreasuryKeys : OpenDispute(c, t)
    \/ \E c \in Callers, r \in Resolutions, ba \in SplitAmounts, sa \in SplitAmounts :
          ProposeDisputeResolution(c, r, ba, sa)
    \/ \E c \in Callers : ContestDisputeResolution(c)
    \/ \E c \in Callers, b \in Buyers, t \in TreasuryKeys :
          ExecuteDisputeResolution(c, b, SELLER, t)

SpecResolution == Init /\ [][NextResolution]_vars

\* what holds in every state with a contested resolution, and after each
\* contest and each proposal
ContestBlocksExecution ==
    /\ last.op = "contest_dispute_resolution" =>
          /\ last.caller \in {tx.buyer, tx.seller}
          /\ dispute.contested
          /\ now < dispute.pending_resolution_at + 48 * 3600
    /\ (dispute.exists /\ dispute.contested) =>
          /\ dispute.pending_resolution # "none"
          /\ ExecuteDisputeResolutionResult(config.admin, tx.buyer, tx.seller,
                                            config.treasury) = "AlreadyContested"
          /\ \A c \in Signers, b \in Signers, sl \in Signers, t \in TreasuryKeys :
                ExecuteDisputeResolutionResult(c, b, sl, t) # "Ok"
          /\ \A c \in Signers : ContestDisputeResolutionResult(c) # "Ok"
    /\ (dispute.exists /\ dispute.pending_resolution # "none") =>
          /\ \A c \in Signers \ {tx.buyer, tx.seller} :
                ContestDisputeResolutionResult(c) # "Ok"
          /\ ~(now < dispute.pending_resolution_at + 48 * 3600) =>
                \A c \in Signers : ContestDisputeResolutionResult(c) # "Ok"
    /\ last.op = "propose_dispute_resolution" =>
          /\ ~dispute.contested
          /\ dispute.pending_resolution_at = now
          /\ last.caller = config.admin

\* contested is set by a contest and cleared by a proposal only
ContestClearedByProposalOnly ==
    /\ (dispute.contested /\ ~dispute'.contested)
          => last'.op = "propose_dispute_resolution"
    /\ (~dispute.contested /\ dispute'.contested)
          => last'.op = "contest_dispute_resolution"

\* C12: a contest succeeds only for the buyer or the seller, only inside the
\* 48 hours after the proposal and once per proposal; from then on
\* execute_dispute_resolution fails with AlreadyContested until the admin
\* proposes again, which clears contested and restarts the timelock.
C12_ContestedUntilReproposed ==
    []ContestBlocksExecution /\ [][ContestClearedByProposalOnly]_vars

\* a contested resolution two days after its proposal, when the timelock
\* alone would let it execute
C12_Witness ==
    /\ dispute.exists /\ dispute.contested
    /\ now >= dispute.pending_resolution_at + DISPUTE_RESOLUTION_TIMELOCK_SECONDS
    /\ ExecuteDisputeResolutionResult(config.admin, tx.buyer, tx.seller,
                                      config.treasury) = "AlreadyContested"

\* the transfers of the execute_dispute_resolution that just succeeded, by
\* the branch it took (kept in dispute.resolution)
ResolutionPaidByBranch ==
    last.op = "execute_dispute_resolution" =>
       /\ last.transfers[1].from = "escrow" /\ last.transfers[1].to = tx.buyer
       /\ last.transfers[2].from = "escrow" /\ last.transfers[2].to = tx.seller
       /\ last.transfers[3].from = "escrow" /\ last.transfers[3].to = config.treasury
       /\ last.transfers[4].from = "dispute"
       /\ last.transfers[4].amount = dispute.dispute_fee
       /\ dispute.resolution = "FullRefund" =>
             /\ last.transfers[1].amount = tx.sale_price
             /\ last.transfers[2].amount = 0 /\ last.transfers[3].amount = 0
             /\ tx.status = "Refunded"
             /\ last.transfers[4].to = tx.buyer
       /\ dispute.resolution = "ReleaseToSeller" =>
             /\ last.transfers[1].amount = 0
             /\ last.transfers[2].amount = tx.seller_proceeds
             /\ last.transfers[3].amount = tx.platform_fee
             /\ tx.status = "Completed"
             /\ last.transfers[4].to = config.treasury
       /\ dispute.resolution = "PartialRefund" =>
             /\ last.transfers[1].amount = dispute.pending_buyer_amount
             /\ last.transfers[2].amount = dispute.pending_seller_amount
             /\ last.transfers[3].amount = 0
             /\ tx.status = "Completed"
             /\ last.transfers[4].to = config.treasury
       /\ dispute.resolution \in Resolutions
       /\ last.transfers[1].amount + last.transfers[2].amount
             + last.transfers[3].amount = tx.sale_price
       /\ last.old_escrow_amount = tx.sale_price
       /\ escrow.amount = 0 /\ ~escrow.exists

\* the same payouts as they arrive: the buyer's and the treasury's balances
\* move by the branch's amounts and the dispute fee, the seller's by its
\* amount and the closed Escrow's remainder
ResolutionArrives ==
    last'.op = "execute_dispute_resolution" =>
       LET r == dispute.pending_resolution
           fee == dispute.dispute_fee
           toBuyer == IF r = "FullRefund" THEN tx.sale_price
                      ELSE IF r = "PartialRefund" THEN dispute.pending_buyer_amount
                      ELSE 0
           toSeller == IF r = "ReleaseToSeller" THEN tx.seller_proceeds
                       ELSE IF r = "PartialRefund" THEN dispute.pending_seller_amount
                       ELSE 0
           toTreasury == IF r = "ReleaseToSeller" THEN tx.platform_fee ELSE 0
       IN /\ wallet'[tx.buyer] = wallet[tx.buyer] + toBuyer
                                   + (IF r = "FullRefund" THEN fee ELSE 0)
          /\ wallet'[config.treasury] = wallet[config.treasury] + toTreasury
                                   + (IF r = "FullRefund" THEN 0 ELSE fee)
          /\ wallet'[tx.seller] = wallet[tx.seller] + toSeller
                                   + (escrow.lamports - tx.sale_price)
          /\ toBuyer + toSeller + toTreasury = tx.sale_price

\* C13: a successful execute_dispute_resolution pays by the pending branch:
\* FullRefund pays sale_price to the buyer, sets Refunded and returns the
\* dispute fee to the buyer; ReleaseToSeller pays platform_fee to the treasury
\* and seller_proceeds to the seller, sets Completed, fee to the treasury;
\* PartialRefund pays the two proposed amounts, sets Completed, fee to the
\* treasury. In every branch the payouts total sale_price and escrow.amount
\* reaches 0.
C13_ResolutionPayouts ==
    []ResolutionPaidByBranch /\ [][ResolutionArrives]_vars

\* a split resolution that paid both sides
C13_Witness ==
    /\ last.op = "execute_dispute_resolution"
    /\ dispute.resolution = "PartialRefund"
    /\ last.transfers[1].amount = 10 /\ last.transfers[2].amount = 30
    /\ tx.status = "Completed" /\ escrow.amount = 0

\* C14: a Dispute whose pending resolution is PartialRefund has
\* pending_buyer_amount + pending_seller_amount = sale_price with at least one
\* of the two positive; a proposal that breaks this is rejected (no state
\* changes); a pending FullRefund or ReleaseToSeller has both amounts None.
C14_PartialRefundSumsToSalePrice ==
    /\ (dispute.exists /\ dispute.pending_resolution = "PartialRefund") =>
          /\ dispute.pending_buyer_amount # NoInt
          /\ dispute.pending_seller_amount # NoInt
          /\ dispute.pending_buyer_amount + dispute.pending_seller_amount
                = tx.sale_price
          /\ dispute.pending_buyer_amount > 0 \/ dispute.pending_seller_amount > 0
    /\ (dispute.exists /\ dispute.pending_resolution \in {"FullRefund", "ReleaseToSeller"}) =>
          /\ dispute.pending_buyer_amount = NoInt
          /\ dispute.pending_seller_amount = NoInt
    /\ (dispute.exists /\ tx.exists /\ listing.exists) =>
          \A ba \in SplitAmounts \cup {U64_MAX}, sa \in SplitAmounts \cup {U64_MAX} :
             (ba + sa # tx.sale_price \/ (ba = 0 /\ sa = 0)) =>
                /\ ProposeDisputeResolutionResult(config.admin, "PartialRefund", ba, sa)
                      \in {"InvalidRefundAmounts", "MathOverflow",
                           "PartialRefundMustEqualSalePrice"}
                /\ \A c \in Signers :
                      ProposeDisputeResolutionResult(c, "PartialRefund", ba, sa) # "Ok"

\* a pending split of 30 and 10 of a sale of 40, where a split of 10 and 10
\* is refused
C14_Witness ==
    /\ dispute.exists /\ dispute.pending_resolution = "PartialRefund"
    /\ dispute.pending_buyer_amount = 30 /\ dispute.pending_seller_amount = 10
    /\ tx.sale_price = 40
    /\ ProposeDisputeResolutionResult(config.admin, "PartialRefund", 10, 10)
          = "PartialRefundMustEqualSalePrice"
    /\ ProposeDisputeResolutionResult(config.admin, "PartialRefund", 0, 0)
          = "InvalidRefundAmounts"

\* ------------------------------------------------------------------------
\* From the sale to its end, the clock in weeks: a direct purchase or a
\* settled auction with an outbid bidder, then confirmation, verification,
\* release, refund or dispute
\* ------------------------------------------------------------------------
\* how far the completion specification follows the clock
CompletionHorizon == 3024000

CompletionInputs ==
    {ListingInput("BuyNow", 40, NoInt, 40, 604800, NoKey),
     ListingInput("Auction", 20, NoInt, NoInt, 604800, NoKey)}

CompletionDeltas == {604800}

CompletionResolutions == {"FullRefund", "ReleaseToSeller"}

NextCompletion ==
    \/ \E d \in CompletionDeltas : Tick(d, CompletionHorizon)
    \/ \E li \in CompletionInputs :
          CreateListing(SELLER, li.listing_type, li.starting_price, li.reserve_price,
                        li.buy_now_price, li.duration_seconds, li.payment_mint)
    \/ \E b \in Buyers, a \in BidAmounts, id \in WithdrawalIds : PlaceBid(b, a, id)
    \/ \E u \in Buyers, id \in WithdrawalIds : WithdrawFunds(u, id)
    \/ \E id \in WithdrawalIds : BuyNow(BUYER1, id)
    \/ \E b \in Buyers : SettleAuction(SELLER, b)
    \/ \E c \in Callers : SellerConfirmTransfer(c)
    \/ \E c \in Callers : VerifyUploads(c, "hash")
    \/ \E c \in Callers : EmergencyAutoVerify(c)
    \/ \E c \in Callers : AdminEmergencyVerify(c)
    \/ \E c \in Callers, sg \in BOOLEAN, t \in TreasuryKeys :
          FinalizeTransaction(c, sg, t)
    \/ \E c \in Callers, t \in TreasuryKeys : ConfirmReceipt(c, SELLER, t)
    \/ \E c \in Callers, t \in TreasuryKeys : OpenDispute(c, t)
    \/ \E c \in Callers, r \in CompletionResolutions :
          ProposeDisputeResolution(c, r, 0, 0)
    \/ \E c \in Callers : ContestDisputeResolution(c)
    \/ \E c \in Callers, b \in Buyers, t \in TreasuryKeys :
          ExecuteDisputeResolution(c, b, SELLER, t)
    \/ \E c \in Callers : EmergencyRefund(c)

SpecCompletion == Init /\ [][NextCompletion]_vars

\* C15 as stated: once the seller has confirmed, seller_confirm_transfer by
\* the seller fails with AlreadyConfirmed, and once the uploads are verified,
\* verify_uploads by the backend fails with AlreadyVerified, in whatever
\* state the Transaction is.
C15_SecondCallFailsWithAlready ==
    /\ tx.seller_confirmed_transfer =>
          SellerConfirmTransferResult(tx.seller) = "AlreadyConfirmed"
    /\ tx.uploads_verified =>
          VerifyUploadsResult(config.backend_authority) = "AlreadyVerified"

\* after the first success no caller succeeds again; the error names
SecondCallFails ==
    /\ tx.seller_confirmed_transfer =>
          /\ tx.seller_confirmed_at # NoInt
          /\ \A c \in Signers : SellerConfirmTransferResult(c) # "Ok"
          /\ SellerConfirmTransferResult(tx.seller) =
                IF tx.status = "InEscrow" THEN "AlreadyConfirmed"
                ELSE "InvalidTransactionStatus"
    /\ tx.uploads_verified =>
          /\ tx.verification_timestamp # NoInt
          /\ \A c \in Signers : VerifyUploadsResult(c) # "Ok"
          /\ VerifyUploadsResult(config.backend_authority) = "AlreadyVerified"
    /\ last.op = "seller_confirm_transfer" =>
          tx.seller_confirmed_transfer /\ tx.seller_confirmed_at = now
    /\ last.op = "verify_uploads" =>
          tx.uploads_verified /\ tx.verification_timestamp = now

\* the two flags and their timestamps stay as first written
FirstValuesKept ==
    /\ tx.seller_confirmed_transfer =>
          /\ tx'.seller_confirmed_transfer
          /\ tx'.seller_confirmed_at = tx.seller_confirmed_at
          /\ last'.op # "seller_confirm_transfer"
    /\ tx.uploads_verified =>
          /\ tx'.uploads_verified
          /\ tx'.verification_timestamp = tx.verification_timestamp
          /\ last'.op # "verify_uploads"

\* C15 (amended): seller_confirm_transfer and verify_uploads each succeed at
\* most once per Transaction and the timestamps of the first success stay;
\* a later verify_uploads by the backend fails with AlreadyVerified in every
\* status, a later seller_confirm_transfer by the seller fails with
\* AlreadyConfirmed while the Transaction is InEscrow and with
\* InvalidTransactionStatus in every other status.
C15_ConfirmedAndVerifiedOnce ==
    []SecondCallFails /\ [][FirstValuesKept]_vars

\* a confirmed sale under dispute a week later: the seller's second
\* confirmation is refused for the status
C15_Witness ==
    /\ tx.exists /\ tx.seller_confirmed_transfer /\ tx.uploads_verified
    /\ tx.status = "Disputed"
    /\ now > tx.seller_confirmed_at
    /\ SellerConfirmTransferResult(tx.seller) = "InvalidTransactionStatus"
    /\ VerifyUploadsResult(config.backend_authority) = "AlreadyVerified"

\* what every state allows of emergency_refund, and what its success leaves
EmergencyRefundGuarded ==
    /\ tx.exists => tx.transfer_deadline = tx.created_at + 7 * 86400
    /\ \A c \in Signers :
          EmergencyRefundResult(c) = "Ok" =>
             /\ c = tx.buyer
             /\ tx.status = "InEscrow"
             /\ now > tx.transfer_deadline
             /\ ~tx.seller_confirmed_transfer
             /\ escrow.amount = tx.sale_price
    /\ (tx.exists /\ escrow.exists /\ listing.exists /\ tx.status = "InEscrow"
          /\ now > tx.transfer_deadline /\ tx.seller_confirmed_transfer) =>
          EmergencyRefundResult(tx.buyer) = "MustOpenDispute"
    /\ last.op = "emergency_refund" =>
          /\ last.caller = tx.buyer
          /\ now > tx.transfer_deadline
          /\ ~tx.seller_confirmed_transfer
          /\ last.transfers = <<Transfer("escrow", tx.buyer, tx.sale_price)>>
          /\ last.old_escrow_amount = tx.sale_price
          /\ escrow.amount = 0 /\ ~escrow.exists
          /\ tx.status = "Refunded"

\* the refund as it arrives: sale_price, and with it what the two closed
\* accounts (Escrow and Transaction, close = buyer) held beside it
EmergencyRefundArrives ==
    last'.op = "emergency_refund" =>
       /\ tx.status = "InEscrow"
       /\ wallet'[tx.buyer] = wallet[tx.buyer] + tx.sale_price
                                + (escrow.lamports - tx.sale_price) + RentExempt
       /\ \A k \in DOMAIN wallet : k # tx.buyer => wallet'[k] = wallet[k]

C17_FinalizeGuarded ==
    /\ \A c \in Signers, sg \in BOOLEAN, t \in TreasuryKeys :
          FinalizeTransactionResult(c, sg, t) = "Ok" =>
             /\ c = tx.seller /\ sg
             /\ tx.status = "InEscrow"
             /\ tx.seller_confirmed_transfer /\ tx.uploads_verified
             /\ tx.seller_confirmed_at # NoInt
             /\ now >= tx.seller_confirmed_at + 7 * 86400
             /\ t = config.treasury
             /\ escrow.amount = tx.platform_fee + tx.seller_proceeds
    /\ (tx.exists /\ listing.exists /\ escrow.exists /\ tx.status = "Disputed"
          /\ ~config.paused) =>
          FinalizeTransactionResult(tx.seller, TRUE, config.treasury)
             = "CannotFinalizeDisputed"
    /\ last.op = "finalize_transaction" =>
          /\ tx.status = "Completed"
          /\ last.caller = tx.seller
          /\ tx.seller_confirmed_transfer /\ tx.uploads_verified
          /\ now >= tx.seller_confirmed_at + 7 * 86400
          /\ last.old_escrow_amount = tx.platform_fee + tx.seller_proceeds

\* a release at the first moment the grace period allows
C17_Witness ==
    /\ last.op = "finalize_transaction"
    /\ tx.status = "Completed"
    /\ now = tx.seller_confirmed_at + FINALIZE_GRACE_PERIOD

\* while Disputed the Dispute exists and the other ways out are refused;
\* after the end the Escrow is closed and empty
DisputeBlocksOtherPaths ==
    /\ (tx.exists /\ tx.status = "Disputed") =>
          /\ dispute.exists /\ escrow.exists
          /\ \A c \in Signers, sg \in BOOLEAN, t \in TreasuryKeys :
                FinalizeTransactionResult(c, sg, t) # "Ok"
          /\ \A c \in Signers, sl \in Signers, t \in TreasuryKeys :
                ConfirmReceiptResult(c, sl, t) # "Ok"
          /\ \A c \in Signers : EmergencyRefundResult(c) # "Ok"
          /\ \A c \in Signers, t \in TreasuryKeys : OpenDisputeResult(c, t) # "Ok"
    /\ tx.status \in {"Completed", "Refunded"} =>
          /\ ~escrow.exists /\ escrow.lamports = 0 /\ escrow.amount = 0
          /\ ~dispute.exists

\* Disputed is left through execute_dispute_resolution only; Completed and
\* Refunded are never left and the Escrow pays nothing afterwards
DisputedLeftByResolutionOnly ==
    /\ (tx.status = "Disputed" /\ tx'.status # "Disputed") =>
          /\ last'.op = "execute_dispute_resolution"
          /\ tx'.status \in {"Completed", "Refunded"}
    /\ (tx.status = "Disputed" /\ tx'.status = "Disputed") =>
          /\ escrow' = escrow \/ last'.op = "withdraw_funds"
          /\ escrow'.amount >= tx.sale_price
    /\ tx.status \in {"Completed", "Refunded"} =>
          /\ tx'.status = tx.status
          /\ escrow' = escrow
          /\ \A i \in DOMAIN last'.transfers : last'.transfers[i].from # "escrow"

\* C18: while a Transaction is Disputed, finalize_transaction,
\* confirm_receipt, emergency_refund and a second open_dispute fail; the
\* Transaction leaves Disputed only by a successful
\* execute_dispute_resolution, to Completed or Refunded; Completed and
\* Refunded are terminal and nothing leaves the Escrow afterwards.
C18_DisputeSupersedes ==
    []DisputeBlocksOtherPaths /\ [][DisputedLeftByResolutionOnly]_vars

\* a verified sale under dispute past every deadline, where only the status
\* keeps the buyer's confirm_receipt and the seller's finalize from paying
C18_Witness ==
    /\ tx.exists /\ tx.status = "Disputed"
    /\ tx.seller_confirmed_transfer /\ tx.uploads_verified
    /\ now >= tx.seller_confirmed_at + FINALIZE_GRACE_PERIOD
    /\ now > tx.transfer_deadline
    /\ ConfirmReceiptResult(tx.buyer, tx.seller, config.treasury)
          = "InvalidTransactionStatus"
    /\ FinalizeTransactionResult(tx.seller, TRUE, config.treasury)
          = "CannotFinalizeDisputed"

\* ------------------------------------------------------------------------
\* The pause switch with the instructions around one direct sale: listing,
\* purchase, offers, confirmation, verification, refund, dispute, and the
\* rotation of treasury and admin
\* ------------------------------------------------------------------------
\* how far the pause specification follows the clock
PauseHorizon == 691200

PauseInputs == {ListingInput("BuyNow", 40, NoInt, 40, 1200, NoKey)}

\* one step past the timelocks, the offer deadline and the transfer deadline
PauseDeltas == {691200}

NextPause ==
    \/ \E d \in PauseDeltas : Tick(d, PauseHorizon)
    \/ \E c \in {EXPECTED_ADMIN, SELLER}, p \in BOOLEAN : SetPaused(c, p)
    \/ \E c \in {EXPECTED_ADMIN, SELLER} : ProposeTreasuryChange(c, TREASURY2)
    \/ \E c \in {EXPECTED_ADMIN, SELLER} : ExecuteTreasuryChange(c)
    \/ \E c \in {EXPECTED_ADMIN, SELLER} : ProposeAdminChange(c, ADMIN2)
    \/ \E c \in {EXPECTED_ADMIN, SELLER} : ExecuteAdminChange(c)
    \/ \E li \in PauseInputs :
          CreateListing(SELLER, li.listing_type, li.starting_price, li.reserve_price,
                        li.buy_now_price, li.duration_seconds, li.payment_mint)
    \/ \E id \in WithdrawalIds : BuyNow(BUYER1, id)
    \/ \E c \in Callers : CancelListing(c)
    \/ \E a \in OfferAmounts, dl \in OfferDeadlines : MakeOffer(BUYER2, a, dl, 0)
    \/ \E c \in Callers, k \in OfferKeys : CancelOffer(c, k)
    \/ \E c \in Callers, k \in OfferKeys, b \in Buyers : ExpireOffer(c, k, b)
    \/ \E c \in Callers : SellerConfirmTransfer(c)
    \/ \E c \in Callers : VerifyUploads(c, "hash")
    \/ \E c \in Callers, t \in TreasuryKeys : ConfirmReceipt(c, SELLER, t)
    \/ \E c \in Callers : EmergencyRefund(c)
    \/ \E c \in Callers, t \in TreasuryKeys : OpenDispute(c, t)
    \/ \E c \in Signers : ProposeDisputeResolution(c, "FullRefund", 0, 0)
    \/ \E c \in Callers : ContestDisputeResolution(c)
    \/ \E c \in Signers, t \in TreasuryKeys :
          ExecuteDisputeResolution(c, BUYER1, SELLER, t)

SpecPause == Init /\ [][NextPause]_vars

\* the instructions that begin with require!(!config.paused, ...) fail for
\* every caller while the platform is paused
PauseGatedInstructionsFail ==
    config.paused =>
       /\ \A li \in PauseInputs :
             CreateListingResult(SELLER, li.listing_type, li.starting_price,
                                 li.reserve_price, li.buy_now_price,
                                 li.duration_seconds) # "Ok"
       /\ \A b \in Signers, id \in WithdrawalIds : BuyNowResult(b, id) # "Ok"
       /\ \A b \in Buyers, a \in OfferAmounts, dl \in OfferDeadlines :
             MakeOfferResult(b, a, dl, 0) # "Ok"
       /\ \A c \in Signers, sl \in Signers, t \in TreasuryKeys :
             ConfirmReceiptResult(c, sl, t) # "Ok"
       /\ \A c \in Signers, sg \in BOOLEAN, t \in TreasuryKeys :
             FinalizeTransactionResult(c, sg, t) # "Ok"
       /\ \A c \in Signers, t \in TreasuryKeys : OpenDisputeResult(c, t) # "Ok"

\* C19 as stated: while Config.paused is true no instruction succeeds other
\* than contest_dispute_resolution, execute_dispute_resolution,
\* withdraw_funds and set_paused (the clock may advance).
C19_PausedBlocksWrites ==
    config.paused =>
       last.op \in {"initialize", "tick", "set_paused",
                    "contest_dispute_resolution", "execute_dispute_resolution",
                    "withdraw_funds"}

\* the counter stays within its limit; at the limit the last bidder is
\* refused, and by this rule only the last bidder ever is
ConsecutiveBidsBounded ==
    /\ listing.consecutive_bid_count <= MAX_CONSECUTIVE_BIDS
    /\ listing.consecutive_bid_count > 0 => listing.last_bidder # NoKey
    /\ (listing.exists /\ escrow.exists /\ listing.last_bidder # NoKey
          /\ listing.consecutive_bid_count = MAX_CONSECUTIVE_BIDS) =>
          \A a \in BiddingAmounts, id \in WithdrawalIds :
             /\ PlaceBidResult(listing.last_bidder, a, id) # "Ok"
             /\ \A o \in Buyers \ {listing.last_bidder} :
                   (PlaceBidResult(o, a, id) = "Ok"
                      /\ wallet[listing.last_bidder] >= PlaceBidRequiredBalance(a))
                   => PlaceBidResult(listing.last_bidder, a, id)
                         = "MaxConsecutiveBidsExceeded"
    /\ \A o \in Signers \ {listing.last_bidder}, a \in BiddingAmounts :
          PlaceBidResult(o, a, listing.withdrawal_count + 1)
             # "MaxConsecutiveBidsExceeded"

\* an accepted bid counts up for the last bidder and restarts at 1 for any
\* other; nothing else moves the counter
ConsecutiveBidsCounted ==
    /\ last'.op = "place_bid" =>
          /\ listing'.last_bidder = last'.caller
          /\ listing'.consecutive_bid_count =
                IF listing.last_bidder = last'.caller
                THEN listing.consecutive_bid_count + 1 ELSE 1
    /\ (last'.op # "place_bid" /\ listing.exists) =>
          /\ listing'.last_bidder = listing.last_bidder
          /\ listing'.consecutive_bid_count = listing.consecutive_bid_count

\* C20: consecutive_bid_count never exceeds MAX_CONSECUTIVE_BIDS (10 in the
\* program); the last bidder at the limit is refused with
\* MaxConsecutiveBidsExceeded; an accepted bid of another bidder sets
\* last_bidder to that bidder and the count to 1, after which the first
\* bidder can bid again.
C20_ConsecutiveBidBound ==
    []ConsecutiveBidsBounded /\ [][ConsecutiveBidsCounted]_vars

\* the first bidder bid up to the limit (two tickets from outbidding
\* themselves), was outbid by the second bidder, and bid again: count 1
C20_Witness ==
    /\ last.op = "place_bid" /\ last.caller = BUYER1
    /\ listing.last_bidder = BUYER1 /\ listing.consecutive_bid_count = 1
    /\ listing.withdrawal_count = MAX_CONSECUTIVE_BIDS + 1
    /\ \A i \in 1..MAX_CONSECUTIVE_BIDS : pw[i].user = BUYER1
    /\ pw[MAX_CONSECUTIVE_BIDS + 1].user = BUYER2

\* the limit reached: the last bidder's next bid is refused, another's taken
ConsecutiveLimitReached ==
    /\ listing.consecutive_bid_count = MAX_CONSECUTIVE_BIDS
    /\ \E a \in BiddingAmounts :
          /\ PlaceBidResult(listing.last_bidder, a, listing.withdrawal_count + 1)
                = "MaxConsecutiveBidsExceeded"
          /\ \E o \in Buyers : PlaceBidResult(o, a, listing.withdrawal_count + 1) = "Ok"

\* ------------------------------------------------------------------------
\* Offers on one listing: both buyers, both seeds, cancelled, expired and
\* accepted offers
\* ------------------------------------------------------------------------
\* how far the offer specification follows the clock
OfferHorizon == 1200

OfferTicks == {600}

NextOffers ==
    \/ \E d \in OfferTicks : Tick(d, OfferHorizon)
    \/ \E li \in ListingInputs :
          CreateListing(SELLER, li.listing_type, li.starting_price, li.reserve_price,
                        li.buy_now_price, li.duration_seconds, li.payment_mint)
    \/ \E b \in Buyers, a \in OfferAmounts, dl \in OfferDeadlines, sd \in OfferSeeds :
          MakeOffer(b, a, dl, sd)
    \/ \E c \in Callers, k \in OfferKeys : CancelOffer(c, k)
    \/ \E c \in Callers, k \in OfferKeys, b \in Buyers : ExpireOffer(c, k, b)
    \/ \E c \in Callers, k \in OfferKeys, b \in Buyers, id \in WithdrawalIds :
          AcceptOffer(c, k, b, id)

SpecOffers == Init /\ [][NextOffers]_vars

\* C21 as stated: a successful make_offer used the seed equal to the stored
\* offer_count, below the limit, and left the stored offer_count one higher,
\* so that the offers of a listing carry the seeds 0, 1, 2, ...
C21_OfferCountAdvances ==
    /\ listing.offer_count <= MAX_OFFERS_PER_LISTING
    /\ last.op = "make_offer" =>
          /\ last.id < MAX_OFFERS_PER_LISTING
          /\ listing.offer_count = last.id + 1

\* C22 as stated: consecutive_offer_count stays within
\* MAX_CONSECUTIVE_OFFERS (10 in the program); an accepted offer leaves its
\* buyer as last_offer_buyer with a count of at least 1 (1 for a buyer other
\* than the previous one); the last offer buyer at the limit is refused with
\* MaxConsecutiveOffersExceeded.
C22_ConsecutiveOffersCounted ==
    /\ listing.consecutive_offer_count <= MAX_CONSECUTIVE_OFFERS
    /\ last.op = "make_offer" =>
          /\ listing.last_offer_buyer = last.caller
          /\ listing.consecutive_offer_count >= 1
    /\ (listing.exists /\ listing.last_offer_buyer # NoKey
          /\ listing.consecutive_offer_count = MAX_CONSECUTIVE_OFFERS) =>
          \A a \in OfferAmounts, dl \in OfferDeadlines, sd \in OfferSeeds :
             MakeOfferResult(listing.last_offer_buyer, a, dl, sd) # "Ok"

\* the tickets of the listing are those numbered 1..withdrawal_count, each
\* carrying its number
TicketsNumbered ==
    /\ \A i \in WithdrawalIds :
          /\ pw[i].state # "none" <=> i <= listing.withdrawal_count
          /\ pw[i].state # "none" => pw[i].withdrawal_id = i
    /\ \A i \in WithdrawalIds, j \in WithdrawalIds :
          (i # j /\ pw[i].state # "none" /\ pw[j].state # "none")
             => pw[i].withdrawal_id # pw[j].withdrawal_id

\* the counter never decreases; a ticket is minted under the incremented
\* counter by place_bid, buy_now or accept_offer and keeps its number, user
\* and amount from then on
TicketsMintedInOrder ==
    /\ listing'.withdrawal_count >= listing.withdrawal_count
    /\ \A i \in WithdrawalIds :
          /\ pw[i].state # "none" =>
                /\ pw'[i].state # "none"
                /\ pw'[i].withdrawal_id = pw[i].withdrawal_id
                /\ pw'[i].user = pw[i].user
                /\ pw'[i].amount = pw[i].amount
          /\ (pw[i].state = "none" /\ pw'[i].state # "none") =>
                /\ i = listing.withdrawal_count + 1
                /\ listing'.withdrawal_count = i
                /\ pw'[i].withdrawal_id = listing'.withdrawal_count
                /\ last'.op \in {"place_bid", "buy_now", "accept_offer"}

\* C23: every PendingWithdrawal gets withdrawal_id = withdrawal_count after
\* the increment, withdrawal_count never decreases, and no two tickets of a
\* listing, outstanding or claimed, share an id; tickets of several
\* displaced bidders coexist.
C23_TicketsNeverCollide ==
    []TicketsNumbered /\ [][TicketsMintedInOrder]_vars

\* two outstanding tickets of two bidders on one listing, the second minted
\* by accept_offer
C23_Witness ==
    /\ last.op = "accept_offer"
    /\ listing.withdrawal_count = 2
    /\ pw[1].state = "pending" /\ pw[2].state = "pending"
    /\ pw[1].user # pw[2].user
    /\ pw[1].withdrawal_id = 1 /\ pw[2].withdrawal_id = 2

\* ------------------------------------------------------------------------
\* C24  Listing status is terminal once it leaves Active
\* ------------------------------------------------------------------------
\* a listing that is not Active rejects the eight instructions that act on
\* an Active listing, whoever calls them and whatever they pass
InactiveListingRejects ==
    (listing.exists /\ listing.status # "Active") =>
        /\ \A b \in Callers, a \in BidAmounts, id \in WithdrawalIds :
              PlaceBidResult(b, a, id) # "Ok"
        /\ \A b \in Callers, id \in WithdrawalIds : BuyNowResult(b, id) # "Ok"
        /\ \A b \in Buyers, a \in OfferAmounts, dl \in OfferDeadlines, sd \in OfferSeeds :
              MakeOfferResult(b, a, dl, sd) # "Ok"
        /\ \A c \in Callers, k \in OfferKeys, b \in Buyers, id \in WithdrawalIds :
              AcceptOfferResult(c, k, b, id) # "Ok"
        /\ \A p \in Callers, b \in Buyers : SettleAuctionResult(p, b) # "Ok"
        /\ \A c \in Callers : CancelAuctionResult(c) # "Ok"
        /\ \A c \in Callers : CancelListingResult(c) # "Ok"
        /\ \A c \in Callers : ExpireListingResult(c) # "Ok"

\* the status leaves Active only towards Sold, Cancelled or Expired, each by
\* its own instructions, and a listing that has left Active keeps its
\* status, current_bid, current_bidder and end_time
ListingStatusMovesOnce ==
    listing.exists =>
        /\ listing'.exists
        /\ listing.status # "Active" =>
              /\ listing'.status = listing.status
              /\ listing'.current_bid = listing.current_bid
              /\ listing'.current_bidder = listing.current_bidder
              /\ listing'.end_time = listing.end_time
        /\ (listing.status = "Active" /\ listing'.status # "Active") =>
              \/ listing'.status = "Sold"
                 /\ last'.op \in {"buy_now", "settle_auction", "accept_offer"}
              \/ listing'.status = "Cancelled"
                 /\ last'.op \in {"cancel_auction", "cancel_listing"}
              \/ listing'.status = "Expired" /\ last'.op = "expire_listing"

\* C24: the status of a Listing changes only from Active, to Sold (buy_now,
\* settle_auction, accept_offer), Cancelled (cancel_auction, cancel_listing)
\* or Expired (expire_listing); afterwards it never changes, place_bid,
\* buy_now, make_offer, accept_offer, settle_auction, cancel_auction,
\* cancel_listing and expire_listing fail, and current_bid, current_bidder
\* and end_time stay as they were
C24_StatusTerminal == []InactiveListingRejects /\ [][ListingStatusMovesOnce]_vars

\* a Sold listing whose escrow is still open, on which a further instruction
\* ran and on which a bid and an offer are turned away for its status
C24_Witness ==
    /\ listing.exists /\ listing.status = "Sold" /\ escrow.exists
    /\ last.op = "seller_confirm_transfer"
    /\ PlaceBidResult(BUYER2, 24, listing.withdrawal_count + 1) = "ListingNotActive"
    /\ MakeOfferResult(BUYER2, 30, 900, listing.offer_count) = "ListingNotActive"

\* ------------------------------------------------------------------------
\* C25  settle_auction closes an ended auction at its highest bid
\* ------------------------------------------------------------------------
\* whenever settle_auction would succeed the listing is an Active auction
\* with a current bidder, its end time has come, the caller is the seller,
\* the current bidder or the admin, and no bid can be placed any more
SettleAuctionGuarded ==
    \A p \in Callers, b \in Buyers :
        SettleAuctionResult(p, b) = "Ok" =>
            /\ listing.status = "Active"
            /\ listing.listing_type = "Auction"
            /\ listing.current_bidder # NoKey
            /\ b = listing.current_bidder
            /\ now >= listing.end_time
            /\ p \in {listing.seller, listing.current_bidder, config.admin}
            /\ \A c \in Callers, a \in BidAmounts, id \in WithdrawalIds :
                  PlaceBidResult(c, a, id) # "Ok"

\* an accepted bid becomes current_bid and is higher than the one before;
\* nothing else moves current_bid while the listing is Active; the sale that
\* settle_auction records is for the current bidder at current_bid
SettleAuctionAtHighestBid ==
    /\ (listing.exists /\ listing.status = "Active" /\ listing'.status = "Active") =>
          IF listing'.current_bid # listing.current_bid
          THEN /\ last'.op = "place_bid"
               /\ listing'.current_bid = last'.amount
               /\ listing'.current_bid > listing.current_bid
               /\ listing'.current_bidder = last'.caller
          ELSE listing'.current_bidder = listing.current_bidder
    /\ (~tx.exists /\ tx'.exists /\ last'.op = "settle_auction") =>
          /\ now >= listing.end_time
          /\ listing.status = "Active" /\ listing'.status = "Sold"
          /\ tx'.buyer = listing.current_bidder
          /\ tx'.sale_price = listing.current_bid
          /\ tx'.status = "InEscrow"
          /\ listing'.current_bid = listing.current_bid
          /\ listing'.current_bidder = listing.current_bidder

\* C25: settle_auction succeeds only on an Active Auction listing that has a
\* current bidder, at now >= end_time, called by the seller, the current
\* bidder or the admin, and never while a bid can still be placed; it marks
\* the listing Sold and creates a Transaction whose buyer is current_bidder
\* and whose sale_price is current_bid, the highest bid ever accepted
C25_SettleAfterEnd == []SettleAuctionGuarded /\ [][SettleAuctionAtHighestBid]_vars

\* an auction that took two bids was settled at the second, higher one
C25_Witness ==
    /\ last.op = "settle_auction"
    /\ listing.status = "Sold"
    /\ listing.withdrawal_count >= 1
    /\ pw[1].amount < tx.sale_price
    /\ tx.buyer = listing.current_bidder
    /\ tx.sale_price = listing.current_bid
    /\ now >= listing.end_time

\* ------------------------------------------------------------------------
\* The three sales: buy_now, settle_auction and accept_offer, with prices on
\* both sides of the overflow of sale_price * platform_fee_bps
\* ------------------------------------------------------------------------
SaleHorizon == 1200

SaleInputs ==
    {ListingInput("Auction", 20, NoInt, 140, 1200, OTHER_MINT),
     ListingInput("Auction", 20, NoInt, 33, 1200, APP_TOKEN_MINT),
     ListingInput("BuyNow", 33, NoInt, 33, 1200, OTHER_MINT)}

SaleBids == {20, 135}

SaleOffers == {30, 150}

SaleTicks == {600}

NextSale ==
    \/ \E d \in SaleTicks : Tick(d, SaleHorizon)
    \/ \E li \in SaleInputs :
          CreateListing(SELLER, li.listing_type, li.starting_price, li.reserve_price,
                        li.buy_now_price, li.duration_seconds, li.payment_mint)
    \/ \E b \in Callers, a \in SaleBids, id \in WithdrawalIds : PlaceBid(b, a, id)
    \/ \E b \in Callers, id \in WithdrawalIds : BuyNow(b, id)
    \/ \E p \in Callers, b \in Buyers : SettleAuction(p, b)
    \/ \E b \in Buyers, a \in SaleOffers, dl \in OfferDeadlines, sd \in OfferSeeds :
          MakeOffer(b, a, dl, sd)
    \/ \E c \in Callers, k \in OfferKeys, b \in Buyers, id \in WithdrawalIds :
          AcceptOffer(c, k, b, id)

SpecSale == Init /\ [][NextSale]_vars

\* ------------------------------------------------------------------------
\* C26  Fee split of a sale
\* ------------------------------------------------------------------------
\* the Transaction's amounts, computed here without the program's helpers
SaleSplitExact ==
    tx.exists =>
        /\ tx.sale_price * listing.platform_fee_bps <= U64_MAX
        /\ tx.platform_fee = (tx.sale_price * listing.platform_fee_bps) \div 10000
        /\ tx.seller_proceeds = tx.sale_price - tx.platform_fee
        /\ tx.platform_fee + tx.seller_proceeds = tx.sale_price
        /\ tx.platform_fee * 10 <= tx.sale_price
        /\ tx.platform_fee >= 0 /\ tx.seller_proceeds >= 0

\* a sale whose product sale_price * platform_fee_bps does not fit u64 does
\* not go through
SaleOverflowAborts ==
    (listing.exists /\ listing.status = "Active") =>
        /\ (listing.buy_now_price # NoInt
             /\ listing.buy_now_price * listing.platform_fee_bps > U64_MAX) =>
               \A b \in Callers, id \in WithdrawalIds :
                   BuyNowResult(b, id) # "Ok"
        /\ listing.current_bid * listing.platform_fee_bps > U64_MAX =>
               \A p \in Callers, b \in Buyers : SettleAuctionResult(p, b) # "Ok"
        /\ \A k \in OfferKeys :
               (offers[k].exists
                /\ offers[k].amount * listing.platform_fee_bps > U64_MAX) =>
                  \A c \in Callers, b \in Buyers, id \in WithdrawalIds :
                      AcceptOfferResult(c, k, b, id) # "Ok"

\* the price of the Transaction each sale creates
SalePriceBySource ==
    (~tx.exists /\ tx'.exists) =>
        /\ last'.op \in {"buy_now", "settle_auction", "accept_offer"}
        /\ last'.op = "buy_now" => tx'.sale_price = listing.buy_now_price
        /\ last'.op = "settle_auction" => tx'.sale_price = listing.current_bid
        /\ last'.op = "accept_offer" =>
              \E k \in OfferKeys :
                  /\ offers[k].status = "Active" /\ offers'[k].status = "Accepted"
                  /\ tx'.sale_price = offers[k].amount

\* C26: the Transaction created by buy_now, settle_auction or accept_offer
\* has sale_price = buy_now_price, the winning current_bid or the offer
\* amount, platform_fee = floor(sale_price * listing.platform_fee_bps / 10000),
\* seller_proceeds = sale_price - platform_fee, so the two sum to sale_price
\* and platform_fee <= sale_price / 10; when the product overflows u64 the
\* instruction fails
C26_FeeSplit == []SaleSplitExact /\ []SaleOverflowAborts /\ [][SalePriceBySource]_vars

\* a sale whose fee is rounded down: 33 * 500 / 10000 = 1.65
C26_Witness ==
    /\ tx.exists /\ tx.via = "buy_now"
    /\ tx.sale_price = 33 /\ tx.platform_fee = 1 /\ tx.seller_proceeds = 32
    /\ (tx.sale_price * listing.platform_fee_bps) % 10000 # 0

\* ------------------------------------------------------------------------
\* Release of a sale by finalize_transaction or confirm_receipt, on a market
\* whose statistics start anywhere up to the top of u64
\* ------------------------------------------------------------------------
ReleaseHorizon == 1814400

ReleaseVolumes == {0, U64_MAX - 10}

ReleaseSales == {0, U64_MAX}

InitRelease ==
    /\ now = 0
    /\ \E v \in ReleaseVolumes, n \in ReleaseSales :
          config = [Initialize(EXPECTED_ADMIN, TREASURY, PlatformFee, DisputeFee, BACKEND)
                    EXCEPT !.total_volume = v, !.total_sales = n]
    /\ listing = NoListing
    /\ escrow = NoEscrow
    /\ pw = [i \in WithdrawalIds |-> NoWithdrawal]
    /\ offers = [k \in OfferKeys |-> NoOffer]
    /\ tx = NoTransaction
    /\ dispute = NoDispute
    /\ wallet = [w \in Wallets |-> IF w \in Buyers THEN BuyerFunds ELSE OtherFunds]
    /\ last = NoLast

NextRelease ==
    \/ \E d \in CompletionDeltas : Tick(d, ReleaseHorizon)
    \/ \E li \in CompletionInputs :
          CreateListing(SELLER, li.listing_type, li.starting_price, li.reserve_price,
                        li.buy_now_price, li.duration_seconds, li.payment_mint)
    \/ \E b \in Buyers, a \in BidAmounts, id \in WithdrawalIds : PlaceBid(b, a, id)
    \/ \E u \in Buyers, id \in WithdrawalIds : WithdrawFunds(u, id)
    \/ \E id \in WithdrawalIds : BuyNow(BUYER1, id)
    \/ \E b \in Buyers : SettleAuction(SELLER, b)
    \/ \E c \in Callers : SellerConfirmTransfer(c)
    \/ \E c \in Callers : VerifyUploads(c, "hash")
    \/ \E c \in Callers, sg \in BOOLEAN, t \in TreasuryKeys :
          FinalizeTransaction(c, sg, t)
    \/ \E c \in Callers, t \in TreasuryKeys : ConfirmReceipt(c, SELLER, t)

SpecRelease == InitRelease /\ [][NextRelease]_vars

\* ------------------------------------------------------------------------
\* C27  What a release pays and records
\* ------------------------------------------------------------------------
\* the step in which the Transaction becomes Completed
ReleasePaysOut ==
    (tx.exists /\ tx.status # "Completed" /\ tx'.status = "Completed") =>
        /\ last'.op \in {"finalize_transaction", "confirm_receipt"}
        /\ tx.status = "InEscrow"
        /\ last'.transfers =
              <<Transfer("escrow", config.treasury, tx.platform_fee),
                Transfer("escrow", tx.seller, tx.seller_proceeds)>>
        /\ wallet'[config.treasury] = wallet[config.treasury] + tx.platform_fee
        \* the seller is also the recipient of the closed Escrow's rent
        /\ wallet'[tx.seller] = wallet[tx.seller] + tx.seller_proceeds + RentExempt
        /\ \A w \in Wallets \ {config.treasury, tx.seller} : wallet'[w] = wallet[w]
        /\ escrow.amount = tx.platform_fee + tx.seller_proceeds
        /\ escrow'.amount = 0
        /\ ~escrow'.exists
        /\ config'.total_sales =
              IF config.total_sales = U64_MAX THEN U64_MAX ELSE config.total_sales + 1
        /\ config'.total_volume =
              IF config.total_volume + tx.sale_price > U64_MAX THEN U64_MAX
              ELSE config.total_volume + tx.sale_price
        /\ last'.op = "confirm_receipt" =>
              last'.caller = tx.buyer /\ tx.uploads_verified

\* confirm_receipt by the buyer of a verified sale held in full by the Escrow
\* succeeds whatever the clock and the statistics are
ConfirmReceiptNeedsNoGrace ==
    (/\ tx.exists /\ tx.status = "InEscrow" /\ tx.uploads_verified
     /\ escrow.exists /\ ~config.paused
     /\ escrow.amount = tx.sale_price
     /\ escrow.lamports = escrow.amount + RentExempt) =>
        ConfirmReceiptResult(tx.buyer, tx.seller, config.treasury) = "Ok"

\* ... and by nobody else, and not before the uploads are verified
ConfirmReceiptByBuyerOnly ==
    \A c \in Callers, t \in TreasuryKeys :
        ConfirmReceiptResult(c, SELLER, t) = "Ok" =>
            c = tx.buyer /\ tx.uploads_verified /\ tx.status = "InEscrow"

\* C27: a successful finalize_transaction or confirm_receipt transfers
\* platform_fee to the treasury and seller_proceeds to the seller out of the
\* Escrow, leaves the tracked escrow amount at 0, marks the Transaction
\* Completed and adds 1 to total_sales and sale_price to total_volume,
\* saturating at the top of u64 without failing; confirm_receipt needs the
\* buyer as caller and uploads_verified, but no grace period
C27_ReleasePayout == []ConfirmReceiptNeedsNoGrace /\ []ConfirmReceiptByBuyerOnly /\ [][ReleasePaysOut]_vars

\* the buyer confirmed receipt inside the grace period, and the statistics
\* stopped at the top of u64
C27_Witness ==
    /\ last.op = "confirm_receipt"
    /\ tx.status = "Completed"
    /\ tx.seller_confirmed_at # NoInt
    /\ tx.completed_at < tx.seller_confirmed_at + FINALIZE_GRACE_PERIOD
    /\ config.total_volume = U64_MAX
    /\ config.total_sales = U64_MAX

\* ------------------------------------------------------------------------
\* Verification of the uploads, with clock steps of the backend timeout and
\* of one second less, so that both sides of the timeout occur
\* ------------------------------------------------------------------------
VerifyHorizon == 5184000

VerifyInputs == {ListingInput("BuyNow", 40, NoInt, 40, 1200, NoKey)}

VerifyTicks == {BACKEND_TIMEOUT_SECONDS - 1, BACKEND_TIMEOUT_SECONDS}

NextVerify ==
    \/ \E d \in VerifyTicks : Tick(d, VerifyHorizon)
    \/ \E li \in VerifyInputs :
          CreateListing(SELLER, li.listing_type, li.starting_price, li.reserve_price,
                        li.buy_now_price, li.duration_seconds, li.payment_mint)
    \/ \E b \in Buyers, id \in WithdrawalIds : BuyNow(b, id)
    \/ \E c \in Callers : SellerConfirmTransfer(c)
    \/ \E c \in Callers : VerifyUploads(c, "hash")
    \/ \E c \in Callers : EmergencyAutoVerify(c)
    \/ \E c \in Callers : AdminEmergencyVerify(c)

SpecVerify == Init /\ [][NextVerify]_vars

\* ------------------------------------------------------------------------
\* C28  Who may verify the uploads, and when
\* ------------------------------------------------------------------------
\* uploads are verified only on a confirmed transfer, and the two emergency
\* instructions succeed only for their caller, on a confirmed and unverified
\* Transaction, once the backend timeout has run from the confirmation
EmergencyVerifyGuarded ==
    /\ (tx.exists /\ tx.uploads_verified) =>
          /\ tx.seller_confirmed_transfer
          /\ tx.seller_confirmed_at # NoInt
          /\ tx.verification_timestamp >= tx.seller_confirmed_at
    /\ \A c \in Callers :
          EmergencyAutoVerifyResult(c) = "Ok" =>
              /\ c = tx.buyer
              /\ tx.seller_confirmed_transfer /\ ~tx.uploads_verified
              /\ now >= tx.seller_confirmed_at + 30 * 86400
    /\ \A c \in Callers :
          AdminEmergencyVerifyResult(c) = "Ok" =>
              /\ c = config.admin
              /\ tx.seller_confirmed_transfer /\ ~tx.uploads_verified
              /\ now >= tx.seller_confirmed_at + 30 * 86400

\* the step that sets uploads_verified
UploadsVerifiedBy ==
    (tx.exists /\ ~tx.uploads_verified /\ tx'.uploads_verified) =>
        /\ tx.seller_confirmed_transfer
        /\ last'.op \in {"verify_uploads", "emergency_auto_verify",
                         "admin_emergency_verify"}
        /\ last'.op = "verify_uploads" => last'.caller = config.backend_authority
        /\ last'.op = "emergency_auto_verify" => last'.caller = tx.buyer
        /\ last'.op = "admin_emergency_verify" => last'.caller = config.admin
        /\ now < tx.seller_confirmed_at + 30 * 86400 =>
              last'.op = "verify_uploads"

\* C28: uploads_verified is set only after the seller confirmed the
\* transfer, and before seller_confirmed_at + 30 days only by the backend
\* authority; emergency_auto_verify (by the buyer) and admin_emergency_verify
\* (by the admin) succeed only with seller_confirmed_transfer true,
\* uploads_verified false and now >= seller_confirmed_at + 30 days; hence
\* uploads_verified implies seller_confirmed_transfer
C28_VerifyAfterConfirm == []EmergencyVerifyGuarded /\ [][UploadsVerifiedBy]_vars

\* the buyer verified in the very second the backend timeout ran out
C28_Witness ==
    /\ last.op = "emergency_auto_verify"
    /\ tx.uploads_verified
    /\ tx.verification_timestamp = tx.seller_confirmed_at + BACKEND_TIMEOUT_SECONDS
    /\ tx.seller_confirmed_at > 0

\* ------------------------------------------------------------------------
\* Opening a dispute, with clock steps of the grace period and of one second
\* more, so that both sides of the dispute deadline occur
\* ------------------------------------------------------------------------
DisputeHorizon == 1209602

DisputeInputs == {ListingInput("BuyNow", 130, NoInt, 130, 1200, NoKey)}

DisputeTicks == {FINALIZE_GRACE_PERIOD, FINALIZE_GRACE_PERIOD + 1}

NextDispute ==
    \/ \E d \in DisputeTicks : Tick(d, DisputeHorizon)
    \/ \E li \in DisputeInputs :
          CreateListing(SELLER, li.listing_type, li.starting_price, li.reserve_price,
                        li.buy_now_price, li.duration_seconds, li.payment_mint)
    \/ \E b \in Buyers, id \in WithdrawalIds : BuyNow(b, id)
    \/ \E c \in Callers : SellerConfirmTransfer(c)
    \/ \E c \in Callers : VerifyUploads(c, "hash")
    \/ \E c \in Callers, t \in TreasuryKeys : ConfirmReceipt(c, SELLER, t)
    \/ \E c \in Callers, t \in TreasuryKeys : OpenDispute(c, t)

SpecDispute == Init /\ [][NextDispute]_vars

\* ------------------------------------------------------------------------
\* C29  Opening a dispute
\* ------------------------------------------------------------------------
\* open_dispute succeeds only on a Transaction InEscrow, for its buyer or its
\* seller, and not later than seven days after the seller's confirmation
OpenDisputeGuarded ==
    \A c \in Callers, t \in TreasuryKeys :
        OpenDisputeResult(c, t) = "Ok" =>
            /\ tx.status = "InEscrow"
            /\ c \in {tx.buyer, tx.seller}
            /\ tx.seller_confirmed_transfer =>
                  now <= tx.seller_confirmed_at + 7 * 86400

\* the step that makes the Transaction Disputed
OpenDisputeEffect ==
    (tx.exists /\ tx.status # "Disputed" /\ tx'.status = "Disputed") =>
        /\ last'.op = "open_dispute"
        /\ tx.status = "InEscrow"
        /\ last'.caller \in {tx.buyer, tx.seller}
        /\ ~dispute.exists /\ dispute'.exists
        /\ dispute'.status = "Open"
        /\ dispute'.initiator = last'.caller
        /\ dispute'.respondent \in {tx.buyer, tx.seller} \ {last'.caller}
        /\ dispute'.dispute_fee = (tx.sale_price * listing.dispute_fee_bps) \div 10000
        /\ last'.transfers =
              <<Transfer(last'.caller, "dispute", dispute'.dispute_fee)>>
        \* the initiator also pays the rent of the Dispute account it creates
        /\ dispute'.lamports = RentExempt + dispute'.dispute_fee
        /\ wallet'[last'.caller]
              = wallet[last'.caller] - dispute'.dispute_fee - RentExempt
        /\ \A w \in Wallets \ {last'.caller} : wallet'[w] = wallet[w]
        /\ escrow' = escrow

\* C29: open_dispute succeeds only when the Transaction is InEscrow, the
\* caller is its buyer or seller and, if the seller confirmed, now is at most
\* seller_confirmed_at + 7 days; the initiator then pays dispute_fee =
\* floor(sale_price * listing.dispute_fee_bps / 10000) into the Dispute
\* account, the Dispute starts Open with the other party as respondent and
\* the Transaction becomes Disputed
C29_OpenDispute == []OpenDisputeGuarded /\ [][OpenDisputeEffect]_vars

\* the seller opened a dispute in the last second of the seven days, for a
\* fee rounded down from 2.6
C29_Witness ==
    /\ last.op = "open_dispute"
    /\ tx.status = "Disputed"
    /\ dispute.initiator = tx.seller /\ dispute.respondent = tx.buyer
    /\ now = tx.seller_confirmed_at + FINALIZE_GRACE_PERIOD
    /\ dispute.dispute_fee = 2
    /\ (tx.sale_price * listing.dispute_fee_bps) % 10000 # 0

\* ------------------------------------------------------------------------
\* Instructions that return an error. The handler works on copies of the
\* accounts; they are written back only when it returns Ok, and the lamport
\* moves of a failed instruction are undone. place_bid and buy_now can fail
\* after their copies were changed (lib.rs 585-588, 776-779, 798)
\* ------------------------------------------------------------------------
\* variant: what the handler wrote is kept although it returned an error
StoredAfterKeepingWrites(result, stored, working) == working

StoredAfter(result, stored, working) == IF result = "Ok" THEN working ELSE stored

\* errors returned after the EFFECTS section and the transfer into the Escrow
LateErrors == {"InvalidPreviousBidder", "BorshIoError"}

Aborted(caller, amount) ==
    [NoLast EXCEPT !.op = "aborted", !.caller = caller, !.amount = amount]

PlaceBidAborted(bidder, amount, pwAccount) ==
    LET result == PlaceBidResult(bidder, amount, pwAccount)
        late == result \in LateErrors
    IN  /\ result # "Ok"
        /\ listing' = StoredAfter(result, listing,
                          IF late THEN PlaceBidListing(bidder, amount) ELSE listing)
        /\ escrow' = StoredAfter(result, escrow,
                          IF late THEN EscrowDeposit(escrow, amount) ELSE escrow)
        /\ wallet' = StoredAfter(result, wallet,
                          IF late THEN Debit(wallet, bidder, amount) ELSE wallet)
        /\ last' = Aborted(bidder, amount)
        /\ UNCHANGED <<now, config, pw, offers, tx, dispute>>

BuyNowAborted(buyer, pwAccount) ==
    LET result == BuyNowResult(buyer, pwAccount)
        late == result \in LateErrors
    IN  /\ result # "Ok"
        /\ listing' = StoredAfter(result, listing,
                          IF late THEN BuyNowListing(buyer) ELSE listing)
        /\ escrow' = StoredAfter(result, escrow,
                          IF late THEN EscrowDeposit(escrow, listing.buy_now_price)
                          ELSE escrow)
        /\ wallet' = StoredAfter(result, wallet,
                          IF late THEN Debit(wallet, buyer, listing.buy_now_price)
                          ELSE wallet)
        /\ last' = Aborted(buyer, 0)
        /\ UNCHANGED <<now, config, pw, offers, tx, dispute>>

AtomicHorizon == 1200

AtomicInputs == {ListingInput("Auction", 20, NoInt, 40, 1200, OTHER_MINT)}

AtomicTicks == {600}

NextAtomic ==
    \/ \E d \in AtomicTicks : Tick(d, AtomicHorizon)
    \/ \E li \in AtomicInputs :
          CreateListing(SELLER, li.listing_type, li.starting_price, li.reserve_price,
                        li.buy_now_price, li.duration_seconds, li.payment_mint)
    \/ \E b \in Callers, a \in BidAmounts, id \in WithdrawalIds : PlaceBid(b, a, id)
    \/ \E b \in Callers, a \in BidAmounts, id \in WithdrawalIds :
          PlaceBidAborted(b, a, id)
    \/ \E u \in Callers, id \in WithdrawalIds : WithdrawFunds(u, id)
    \/ \E b \in Callers, id \in WithdrawalIds : BuyNow(b, id)
    \/ \E b \in Callers, id \in WithdrawalIds : BuyNowAborted(b, id)

SpecAtomic == Init /\ [][NextAtomic]_vars

\* ------------------------------------------------------------------------
\* C30  Instructions are atomic
\* ------------------------------------------------------------------------
\* the lamports of the Escrow are always its tracked amount and its rent: no
\* state shows a deposit without its bookkeeping or the reverse
EscrowBooksMatch ==
    escrow.exists => escrow.lamports = escrow.amount + RentExempt

\* an instruction that returned an error changed no record, and a record
\* changes only in an instruction that succeeded; a bid that succeeded has
\* all of its effects
AllOrNothing ==
    /\ last'.op = "aborted" =>
          /\ listing' = listing /\ escrow' = escrow /\ pw' = pw
          /\ wallet' = wallet /\ tx' = tx /\ offers' = offers
          /\ dispute' = dispute /\ config' = config /\ now' = now
    /\ (listing' # listing \/ escrow' # escrow \/ pw' # pw \/ wallet' # wallet
         \/ tx' # tx) =>
          last'.op \in {"create_listing", "place_bid", "withdraw_funds", "buy_now"}
    /\ (last'.op = "place_bid" /\ listing' # listing) =>
          /\ listing'.current_bid = last'.amount
          /\ listing'.current_bidder = last'.caller
          /\ escrow'.amount = escrow.amount + last'.amount
          /\ escrow'.lamports = escrow.lamports + last'.amount
          /\ IF listing.current_bidder # NoKey /\ listing.current_bid > 0
             THEN /\ listing'.withdrawal_count = listing.withdrawal_count + 1
                  /\ pw'[listing'.withdrawal_count].state = "pending"
                  /\ pw'[listing'.withdrawal_count].user = listing.current_bidder
                  /\ pw'[listing'.withdrawal_count].amount = listing.current_bid
                  /\ wallet'[last'.caller]
                        = wallet[last'.caller] - last'.amount - RentExempt
             ELSE /\ pw' = pw
                  /\ listing'.withdrawal_count = listing.withdrawal_count
                  /\ wallet'[last'.caller] = wallet[last'.caller] - last'.amount

LeastBidOver(bid) ==
    bid + Max((bid * MIN_BID_INCREMENT_BPS) \div 10000, MIN_BID_INCREMENT_LAMPORTS)

\* when a bid takes effect the Escrow tracks exactly its amount more, and a
\* rival bid that was acceptable before it, but does not reach the minimum
\* over the bid just written, is rejected afterwards
BidsSerialize ==
    (last'.op = "place_bid" /\ listing' # listing) =>
        /\ escrow'.amount = escrow.amount + last'.amount
        /\ listing'.current_bid = last'.amount
        /\ \A b \in Callers, a \in BiddingAmounts :
              ((\E id \in WithdrawalIds : PlaceBidResult(b, a, id) = "Ok")
               /\ a < LeastBidOver(last'.amount)) =>
                  \A id \in WithdrawalIds : (PlaceBidResult(b, a, id) # "Ok")'

\* no bid of the standing amount, or short of the increment over it, is
\* acceptable in any state
StandingBidOutbidOnly ==
    (listing.exists /\ listing.current_bid > 0) =>
        \A b \in Callers, a \in BiddingAmounts, id \in WithdrawalIds :
            PlaceBidResult(b, a, id) = "Ok" => a >= LeastBidOver(listing.current_bid)

\* C31: two place_bid instructions on one Listing take effect in a serial
\* order, the later validated against what the earlier wrote: two bids that
\* meet the minimum only against the original current_bid (two equal bids,
\* say) are never both accepted, and escrow.amount grows by exactly the sum
\* of the accepted bids
C31_BidsSerialize == []StandingBidOutbidOnly /\ [][BidsSerialize]_vars

\* a second bid was accepted over a first one; a rival bid of the same amount
\* is now turned away
C31_Witness ==
    /\ last.op = "place_bid"
    /\ last.old_bid > 0
    /\ escrow.amount = last.old_escrow_amount + last.amount
    /\ \E b \in Buyers \ {last.caller} :
          PlaceBidResult(b, last.amount, listing.withdrawal_count + 1)
              = "BidIncrementTooSmall"

\* ------------------------------------------------------------------------
\* C32  Listings priced in the APP token and native sales
\* ------------------------------------------------------------------------
\* C32: no sale paid in native funds is created for a listing whose
\* payment_mint is the APP token mint, so no Transaction carries the
\* discounted rate APP_FEE_BPS: buy_now, place_bid with settle_auction and
\* make_offer with accept_offer all turn such a listing away
C32_NoNativeSaleOfTokenListing ==
    tx.exists =>
        /\ listing.payment_mint # APP_TOKEN_MINT
        /\ listing.platform_fee_bps = config.platform_fee_bps

\* ------------------------------------------------------------------------
\* The order of the statements inside the handlers that pay out of an escrow,
\* as the source has them: checks (require!), mutations (writes to
\* escrow.amount, status fields, counters), transfers out of the escrow
\* (system_program::transfer), creations (create_account)
\*   withdraw_funds               649-662, 681, 683
\*   finalize_transaction         1186-1252, 1271, 1273, 1286, 1288, 1293
\*   confirm_receipt              1315-1366, 1385, 1387, 1400, 1402, 1407
\*   accept_offer                 1689-1716, 1718, 1752, 1755, 1764, 1791
\*   execute_dispute_resolution   2059-2118, 2142, 2144, 2148, 2258, 2276
\*   emergency_refund             2299-2340, 2358, 2360, 2364
\* ------------------------------------------------------------------------
HandlerSteps(op) ==
    CASE op = "withdraw_funds" -> <<"checks", "transfer", "mutation">>
      [] op \in {"finalize_transaction", "confirm_receipt"} ->
            <<"checks", "transfer", "mutation", "transfer", "mutation", "mutation">>
      [] op = "accept_offer" ->
            <<"checks", "mutation", "transfer", "mutation", "mutation", "creation">>
      [] op = "execute_dispute_resolution" ->
            <<"checks", "transfer", "mutation", "mutation", "transfer", "mutation">>
      [] op = "emergency_refund" ->
            <<"checks", "transfer", "mutation", "mutation">>
      [] OTHER -> <<>>

StepRank(step) ==
    CASE step = "checks" -> 0
      [] step = "mutation" -> 1
      [] step = "transfer" -> 2
      [] step = "creation" -> 3

\* ------------------------------------------------------------------------
\* C33  Checks, then mutations, then transfers, then creations
\* ------------------------------------------------------------------------
\* C33: in every instruction that pays out of an escrow the steps come in the
\* order checks, state mutations, outbound transfers, account creations: no
\* transfer is issued before the tracked amount and the status are written
C33_MutationsBeforeTransfers ==
    \A i, j \in 1..Len(HandlerSteps(last.op)) :
        i < j => StepRank(HandlerSteps(last.op)[i]) <= StepRank(HandlerSteps(last.op)[j])

\* ------------------------------------------------------------------------
\* Tickets at the limit: one auction, five rising bids of two bidders, an
\* offer above them, and the purchase at the buy-now price
\* ------------------------------------------------------------------------
TicketInputs == {ListingInput("Auction", 20, NoInt, 40, 1800, NoKey)}

TicketBids == {20, 22, 24, 26, 28}

TicketOffers == {30}

NextTickets ==
    \/ \E li \in TicketInputs :
          CreateListing(SELLER, li.listing_type, li.starting_price, li.reserve_price,
                        li.buy_now_price, li.duration_seconds, li.payment_mint)
    \/ \E b \in Buyers, a \in TicketBids, id \in WithdrawalIds : PlaceBid(b, a, id)
    \/ \E b \in Buyers, id \in WithdrawalIds : BuyNow(b, id)
    \/ \E b \in Buyers, a \in TicketOffers, dl \in OfferDeadlines, sd \in OfferSeeds :
          MakeOffer(b, a, dl, sd)
    \/ \E k \in OfferKeys, b \in Buyers, id \in WithdrawalIds :
          AcceptOffer(SELLER, k, b, id)

SpecTickets == Init /\ [][NextTickets]_vars

CancelHorizon == 3600

CancelInputs ==
    { ListingInput("Auction", 24, 24, 40, 1200, NoKey),
      ListingInput("BuyNow", 40, NoInt, 40, 1200, NoKey) }

CancelBids == {20, 24, 30, 60}

CancelTicks == {1200}

NextCancel ==
    \/ \E d \in CancelTicks : Tick(d, CancelHorizon)
    \/ \E li \in CancelInputs :
          CreateListing(SELLER, li.listing_type, li.starting_price, li.reserve_price,
                        li.buy_now_price, li.duration_seconds, li.payment_mint)
    \/ \E b \in Buyers, a \in CancelBids, id \in WithdrawalIds : PlaceBid(b, a, id)
    \/ \E u \in Buyers, id \in WithdrawalIds : WithdrawFunds(u, id)
    \/ \E b \in Buyers, id \in WithdrawalIds : BuyNow(b, id)
    \/ \E p \in Callers, b \in Buyers : SettleAuction(p, b)
    \/ \E c \in Callers : CancelAuction(c)
    \/ \E c \in Callers : ExpireListing(c, SELLER)
    \/ \E c \in Callers : CancelListing(c)
    \/ \E b \in Buyers, a \in OfferAmounts, dl \in OfferDeadlines, sd \in OfferSeeds :
          MakeOffer(b, a, dl, sd)
    \/ \E k \in OfferKeys, b \in Buyers, id \in WithdrawalIds :
          AcceptOffer(SELLER, k, b, id)

SpecCancel == Init /\ [][NextCancel]_vars

\* ------------------------------------------------------------------------
\* C35  Bidder, started flag and the retirement of a listing
\* ------------------------------------------------------------------------
\* an Active auction has a current bidder exactly when it has started
ActiveAuctionBidderIffStarted ==
    (listing.exists /\ listing.status = "Active" /\ listing.listing_type = "Auction") =>
        ((listing.current_bidder # NoKey) <=> listing.auction_started)

\* an Active buy-now listing has no bidder and nothing tracked in its Escrow
ActiveBuyNowHoldsNothing ==
    (listing.exists /\ listing.status = "Active" /\ listing.listing_type = "BuyNow") =>
        /\ listing.current_bidder = NoKey
        /\ listing.current_bid = 0
        /\ escrow.amount = 0

\* the marks every accepted bid leaves on the Listing and its Escrow
NeverBidOn ==
    /\ listing.current_bidder = NoKey
    /\ listing.last_bidder = NoKey
    /\ listing.current_bid = 0
    /\ listing.withdrawal_count = 0
    /\ ~listing.auction_started
    /\ escrow.amount = 0

RetiresUnbidListing ==
    last'.op \in {"cancel_auction", "cancel_listing", "expire_listing"} =>
        /\ NeverBidOn
        /\ listing.status = "Active"
        /\ listing'.status \in {"Cancelled", "Expired"}

\* C35: in every reachable state an Active Auction listing has a current
\* bidder if and only if auction_started is true, and an Active BuyNow
\* listing has no current bidder and an Escrow whose tracked amount is 0;
\* cancel_auction, cancel_listing and expire_listing succeed only on a
\* listing that no accepted bid has touched.
C35_RetiredListingsHadNoBid ==
    /\ []ActiveAuctionBidderIffStarted
    /\ []ActiveBuyNowHoldsNothing
    /\ [][RetiresUnbidListing]_vars

\* an auction with a reserve, retired while it had no bidder and had not
\* started
C35_Witness ==
    /\ last.op \in {"cancel_auction", "cancel_listing", "expire_listing"}
    /\ listing.listing_type = "Auction"
    /\ listing.reserve_price # NoInt
    /\ listing.status \in {"Cancelled", "Expired"}
    /\ listing.current_bidder = NoKey
    /\ ~listing.auction_started


\* ------------------------------------------------------------------------
\* C36  Escrowed funds can always be released
\* ------------------------------------------------------------------------
\* what the Escrow tracks beyond the sale price of the open Transaction
TrackedSurplus == escrow.amount - tx.sale_price

\* the sale is open and the Escrow tracks more than its price, with no
\* PendingWithdrawal left to take the difference out
SurplusLocked ==
    /\ tx.exists /\ escrow.exists
    /\ tx.status \in {"InEscrow", "Disputed"}
    /\ TrackedSurplus > 0
    /\ PendingIds = {}

\* once locked, every instruction leaves the sale open and the surplus in
\* place: confirm_receipt, finalize_transaction, emergency_refund and
\* execute_dispute_resolution all require escrow.amount to equal what they
\* pay out (1362-1366, 1247-1251, 2336-2340, 2112-2118)
SurplusLockedForGood == [](SurplusLocked => []SurplusLocked)

\* C36: while a Transaction is InEscrow or Disputed, whatever its Escrow
\* tracks beyond the sale price is covered by PendingWithdrawal tickets, so
\* that once their holders have claimed the sale can be released and
\* escrow.amount reaches 0.  accept_offer adds the offer to an Escrow that
\* still holds the standing bid and mints no ticket when the bidder is the
\* offer's buyer (1755-1762): that bid is then tracked and owed to nobody.
C36_SurplusIsTicketed ==
    (tx.exists /\ escrow.exists /\ tx.status \in {"InEscrow", "Disputed"}) =>
        TrackedSurplus = PendingTotal


\* ------------------------------------------------------------------------
\* C37  buy_now and the standing bid
\* ------------------------------------------------------------------------
\* lines 699-727: every check of buy_now, and of its accounts, that comes
\* before the handler writes the sale into the Listing (730-735)
BuyNowChecksPass(buyer) ==
    /\ listing.exists /\ escrow.exists /\ ~tx.exists
    /\ wallet[buyer] >= RentExempt
    /\ ~config.paused
    /\ listing.status = "Active"
    /\ now < listing.end_time
    /\ listing.buy_now_price # NoInt
    /\ buyer # listing.seller
    /\ listing.payment_mint # APP_TOKEN_MINT
    /\ wallet[buyer] - RentExempt >= listing.buy_now_price

BuyNowNeverDisplaces ==
    BidDisplaces => \A b \in Callers, id \in WithdrawalIds : BuyNowResult(b, id) # "Ok"


\* ------------------------------------------------------------------------
\* The way out of an offer: offers of both buyers on a listing that is
\* sold or cancelled under them, the platform paused and resumed, the clock
\* on both sides of the deadline
\* ------------------------------------------------------------------------
RefundHorizon == 1200

RefundTicks == {600}

NextRefund ==
    \/ \E d \in RefundTicks : Tick(d, RefundHorizon)
    \/ \E li \in ListingInputs :
          CreateListing(SELLER, li.listing_type, li.starting_price, li.reserve_price,
                        li.buy_now_price, li.duration_seconds, li.payment_mint)
    \/ \E b \in Buyers, a \in OfferAmounts, dl \in OfferDeadlines, sd \in OfferSeeds :
          MakeOffer(b, a, dl, sd)
    \/ \E c \in Callers, k \in OfferKeys : CancelOffer(c, k)
    \/ \E c \in Callers, k \in OfferKeys, b \in Buyers : ExpireOffer(c, k, b)
    \/ \E c \in Callers, k \in OfferKeys, b \in Buyers, id \in WithdrawalIds :
          AcceptOffer(c, k, b, id)
    \/ \E c \in Callers : CancelListing(c)
    \/ \E p \in BOOLEAN : SetPaused(EXPECTED_ADMIN, p)

SpecRefund == Init /\ [][NextRefund]_vars

\* ------------------------------------------------------------------------
\* C38  An offer is recoverable and ends once
\* ------------------------------------------------------------------------
ActiveOffer(k) == offers[k].exists /\ offers[k].status = "Active"

\* the buyer of an Active offer can cancel it in every state, whatever the
\* listing's status and the pause flag
ActiveOfferCancellable ==
    \A k \in OfferKeys : ActiveOffer(k) => CancelOfferResult(offers[k].buyer, k) = "Ok"

\* expire_offer succeeds for the buyer only and after the deadline only,
\* accept_offer up to the deadline only, and both on an Active offer only
OfferExitsGuarded ==
    \A k \in OfferKeys :
       /\ \A c \in Callers, b \in Buyers :
             ExpireOfferResult(c, k, b) = "Ok" =>
                /\ ActiveOffer(k)
                /\ c = offers[k].buyer /\ b = offers[k].buyer
                /\ now > offers[k].deadline
       /\ \A c \in Callers, b \in Buyers, id \in WithdrawalIds :
             AcceptOfferResult(c, k, b, id) = "Ok" =>
                /\ ActiveOffer(k)
                /\ now <= offers[k].deadline
       /\ \A c \in Callers :
             CancelOfferResult(c, k) = "Ok" => ActiveOffer(k) /\ c = offers[k].buyer

\* an offer that is no longer Active has been paid out once, and cancel,
\* expire and accept all fail on it
EndedOfferStaysEnded ==
    \A k \in OfferKeys :
       /\ offers[k].exists =>
             offers[k].payouts = (IF offers[k].status = "Active" THEN 0 ELSE 1)
       /\ (offers[k].exists /\ offers[k].status # "Active") =>
             /\ \A c \in Callers : CancelOfferResult(c, k) # "Ok"
             /\ \A c \in Callers, b \in Buyers : ExpireOfferResult(c, k, b) # "Ok"
             /\ \A c \in Callers, b \in Buyers, id \in WithdrawalIds :
                   AcceptOfferResult(c, k, b, id) # "Ok"

\* cancel_offer and expire_offer move exactly offer.amount from the
\* OfferEscrow to the buyer (1596, 1670), and closing the OfferEscrow returns
\* its rent to the buyer as well (2842, 2865); an offer leaves Active in one
\* of the three instructions and never returns to it
OfferPaidOutOnce ==
    \A k \in OfferKeys :
       /\ (offers[k].exists /\ offers'[k] # offers[k]) =>
             /\ offers[k].status = "Active"
             /\ offers'[k].status \in {"Cancelled", "Expired", "Accepted"}
             /\ last'.op = (CASE offers'[k].status = "Cancelled" -> "cancel_offer"
                              [] offers'[k].status = "Expired" -> "expire_offer"
                              [] offers'[k].status = "Accepted" -> "accept_offer")
             /\ last'.amount = offers[k].amount
             /\ ~offers'[k].escrow_exists
       /\ (offers[k].exists /\ offers'[k].status \in {"Cancelled", "Expired"}
             /\ offers[k].status = "Active") =>
             /\ last'.transfers =
                   <<Transfer("offer_escrow", offers[k].buyer, offers[k].amount)>>
             /\ wallet'[offers[k].buyer]
                   = wallet[offers[k].buyer] + offers[k].amount + RentExempt

DisputeWindowOpen ==
    \E i \in Callers, t \in TreasuryKeys : OpenDisputeResult(i, t) = "Ok"

\* the seller can finalize now
FinalizeWindowOpen ==
    \E s \in Callers, t \in TreasuryKeys : FinalizeTransactionResult(s, TRUE, t) = "Ok"

\* C39: for a Transaction whose seller has confirmed the transfer there is
\* no clock value at which both open_dispute and finalize_transaction are
\* accepted.  open_dispute accepts now <= seller_confirmed_at +
\* FINALIZE_GRACE_PERIOD (1892-1895), finalize_transaction accepts
\* now >= seller_confirmed_at + FINALIZE_GRACE_PERIOD (1224-1227): the
\* second at which the grace period ends is in both windows.
C39_WindowsDisjoint ==
    (tx.exists /\ tx.seller_confirmed_transfer) =>
        ~(DisputeWindowOpen /\ FinalizeWindowOpen)


\* ------------------------------------------------------------------------
\* C40  The refund path after the transfer deadline
\* ------------------------------------------------------------------------
\* the buyer's emergency_refund would be accepted now
RefundEnabled == tx.exists /\ EmergencyRefundResult(tx.buyer) = "Ok"

\* a step of the clock or of an instruction signed by somebody other than
\* the buyer, no dispute opened in it, leaves an enabled refund enabled
RefundStaysEnabled ==
    (/\ RefundEnabled
     /\ last'.op # "tick" => last'.caller # tx.buyer
     /\ last'.op \notin {"emergency_refund", "open_dispute"}) => RefundEnabled'

\* C40: once emergency_refund is enabled (Transaction InEscrow, now past
\* transfer_deadline, the seller has not confirmed, nothing tracked beyond
\* the sale price) it stays enabled until the buyer executes it or a dispute
\* is opened.  seller_confirm_transfer has no deadline check (1030-1041), and
\* emergency_refund returns MustOpenDispute once the seller has confirmed
\* (2312-2315): a late confirmation takes the refund away.
C40_RefundStaysEnabled == [][RefundStaysEnabled]_vars


====
